---- MODULE Spec2Model ----
(***************************************************************************)
(* Model of the libretro plugin host (MikeDX/libretro-raylib).             *)
(*                                                                         *)
(* The session is the libretro_frontend_t record.  Two implementations of  *)
(* the host live side by side in the sources: the monolithic               *)
(* libretro_frontend.c (variant "frontend") and the split                  *)
(* libretro_core.c / libretro_audio.c / libretro_video.c /                 *)
(* libretro_environment.c (variant "core").  Operations that exist in both *)
(* take the variant as their first parameter.                              *)
(*                                                                         *)
(* Pointers are modelled as integers: 0 is NULL, a positive value is the   *)
(* identity of the allocation (for core_handle and core: the index of the  *)
(* dlopen'ed module in `modules`).                                         *)
(***************************************************************************)
EXTENDS Integers, Sequences, FiniteSets, TLC

VARIABLES
    frontend,               \* the libretro_frontend_t session record
    ring_mem,               \* contents of the audio_ring_buffer allocation (sparse, zero cells omitted)
    modules,                \* every module dlopen'ed so far, with the plugin-side state
    g_frontend,             \* the file-scope g_frontend statics of each source file
    single_sample_count,    \* the single-sample accumulator counters, per variant
    single_sample_buffer,   \* the accumulated int16 samples, per variant
    format_auto_detected,   \* the static local of the monolithic video callback
    pc,                     \* "idle", "in_run" while the plugin's retro_run executes, "crashed"
    variant,                \* the implementation the host program is built on
    threads,                \* the locals of a write and of a read in progress on two threads
    call                    \* observation of the last operation: arguments and results

vars == <<frontend, ring_mem, modules, g_frontend, single_sample_count,
          single_sample_buffer, format_auto_detected, pc, variant, threads,
          call>>

-----------------------------------------------------------------------------
(* Bounds of the model *)

MaxFrames == 2          \* largest frame count of one audio batch / one read
MaxRateQ == 2           \* plugin sample rates 4*q, q in 1..MaxRateQ (ring capacity q)
MaxWritePos == 1        \* writes into the default-size ring stop at this write position
MaxLoads == 2           \* number of dlopen calls in one behaviour
MaxDim == 2             \* largest frame / display dimension
MaxCount == 1           \* plugin-side call counters saturate here
MaxTransfer == 2        \* two-thread behaviours: no operation starts once this many frames passed

(* Program constants *)

DefaultSampleRate == 44100
FallbackRingSize == 11025
SampleDivisor == 32768
SINGLE_SAMPLE_BUFFER_SIZE == 512
SINGLE_SAMPLE_FLUSH_THRESHOLD == 1
InitWidth == 320
InitHeight == 240
DefaultCoreWidth == 240
DefaultCoreHeight == 160
RETRO_PIXEL_FORMAT_0RGB1555 == 0
RETRO_PIXEL_FORMAT_XRGB8888 == 1
RETRO_PIXEL_FORMAT_RGB565 == 2
RETRO_PIXEL_FORMAT_RGB555 == 12
RETRO_DEVICE_JOYPAD == 1
RETRO_DEVICE_KEYBOARD == 3
RETROK_LAST == 321
InputPorts == 16
InputButtons == 16

NULL == 0

Variants == {"core", "frontend"}

-----------------------------------------------------------------------------
(* Sample values and the int16 -> float conversion *)

\* stereo frames the plugin emits (left, right)
PluginFrames == {<<-32768, 0>>, <<1, 32767>>}

\* the divisor 32768 is 2^SampleBits
RECURSIVE Log2(_)
Log2(n) == IF n <= 1 THEN 0 ELSE 1 + Log2(n \div 2)

SampleBits == Log2(SampleDivisor)

\* a float is held exactly as the dyadic rational m / 2^e, m odd or zero
RECURSIVE Reduce(_, _)
Reduce(m, e) ==
    IF m = 0 THEN [m |-> 0, e |-> 0]
    ELSE IF e > 0 /\ m % 2 = 0 THEN Reduce(m \div 2, e - 1)
    ELSE [m |-> m, e |-> e]

\* a conversion that divides by 65536
ToFloat_halved(s) == Reduce(s, SampleBits + 1)

\* (float)s / 32768.0f
ToFloat(s) == Reduce(s, SampleBits)

\* the float 0.0f, as left by calloc
ZeroFloat == [m |-> 0, e |-> 0]
ZeroFrame == <<ZeroFloat, ZeroFloat>>

\* interleaved int16 buffers of n stereo frames
RECURSIVE Interleaved(_)
Interleaved(n) ==
    IF n = 0 THEN {<<>>}
    ELSE {d \o f : d \in Interleaved(n - 1), f \in PluginFrames}

-----------------------------------------------------------------------------
(* The ring buffer memory: float frames indexed by frame position *)

Cell(mem, i) == IF i \in DOMAIN mem THEN mem[i] ELSE ZeroFrame

Store(mem, i, v) ==
    IF v = ZeroFrame
    THEN [j \in (DOMAIN mem) \ {i} |-> mem[j]]
    ELSE [j \in (DOMAIN mem) \cup {i} |-> IF j = i THEN v ELSE mem[j]]

EmptyMem == [j \in {} |-> ZeroFrame]

-----------------------------------------------------------------------------
(* The session record *)

\* memset(frontend, 0, sizeof(libretro_frontend_t))
ZeroFrontend ==
    [core_handle |-> NULL, core |-> NULL,
     width |-> 0, height |-> 0,
     framebuffer |-> NULL, framebuffer_size |-> 0,
     pixel_format |-> 0, pixel_format_raw |-> 0,
     frame_width |-> 0, frame_height |-> 0,
     audio_sample_rate |-> 0,
     audio_ring_buffer |-> NULL, audio_ring_buffer_size |-> 0,
     audio_ring_read_pos |-> 0, audio_ring_write_pos |-> 0,
     audio_ring_available |-> 0,
     initialized |-> FALSE, has_set_environment |-> FALSE,
     has_set_video_refresh |-> FALSE, has_set_audio_sample |-> FALSE,
     has_set_audio_sample_batch |-> FALSE, has_set_input_poll |-> FALSE,
     has_set_input_state |-> FALSE,
     av_info_sent_after_first_frame |-> FALSE,
     need_fullpath |-> FALSE,
     rom_data |-> NULL, rom_path |-> NULL,
     input_state |-> {}, keyboard_state |-> {}]

\* libretro_frontend_init; ring_ok is the outcome of the ring buffer calloc
libretro_frontend_init(ring_ok) ==
    [ZeroFrontend EXCEPT
        !.width = InitWidth, !.height = InitHeight,
        !.audio_sample_rate = DefaultSampleRate,
        !.audio_ring_buffer_size = DefaultSampleRate \div 4,
        !.audio_ring_buffer = IF ring_ok THEN 1 ELSE NULL,
        !.audio_ring_read_pos = 0, !.audio_ring_write_pos = 0,
        !.audio_ring_available = 0,
        !.pixel_format = RETRO_PIXEL_FORMAT_XRGB8888,
        !.pixel_format_raw = RETRO_PIXEL_FORMAT_XRGB8888]

\* input_state and keyboard_state are the sets of cells that hold true: the
\* <<port, button>> pairs of bool input_state[16][16] and the keycodes of
\* bool keyboard_state[RETROK_LAST]

\* the last-operation observation
Call(op, n, ret, data, out, idx) ==
    [op |-> op, n |-> n, ret |-> ret, data |-> data, out |-> out, idx |-> idx,
     freed |-> <<>>]

\* free(ptr) of a session buffer, with the size the session recorded for it at
\* that moment; an operation's `freed` lists its free calls in program order
Free(buf, ptr, size) == <<[buf |-> buf, ptr |-> ptr, size |-> size]>>

NoCall == Call("none", 0, 0, <<>>, <<>>, {})

\* the samples of the batch write the next operation directly follows
JustWritten == IF call.op = "batch" THEN call.data ELSE <<>>

\* the static g_frontend the audio callbacks of a variant read
AudioG(v) == IF v = "frontend" THEN g_frontend.fe ELSE g_frontend.audio

-----------------------------------------------------------------------------
(* Audio ring buffer: write side *)

\* a write that does not clamp to the free space
FramesToWrite_unclamped(frames, available_space) == frames

\* frames_to_write = (frames < available_space) ? frames : available_space
FramesToWrite(frames, available_space) ==
    IF frames < available_space THEN frames ELSE available_space

\* the write loop of libretro_audio.c: every index taken modulo the capacity
RECURSIVE WriteLoop(_, _, _, _, _, _)
WriteLoop(mem, write_pos, size, data, n, i) ==
    IF i >= n THEN mem
    ELSE WriteLoop(Store(mem, (write_pos + i) % size,
                         <<ToFloat(data[2 * i + 1]), ToFloat(data[2 * i + 2])>>),
                   write_pos, size, data, n, i + 1)

\* the fast path of libretro_frontend.c: contiguous, no modulo
RECURSIVE WriteLoopFast(_, _, _, _, _)
WriteLoopFast(mem, write_pos, data, n, i) ==
    IF i >= n THEN mem
    ELSE WriteLoopFast(Store(mem, write_pos + i,
                             <<ToFloat(data[2 * i + 1]), ToFloat(data[2 * i + 2])>>),
                       write_pos, data, n, i + 1)

\* the store of one accepted batch, by variant
RingWrite(v, mem, write_pos, size, data, frames, n) ==
    IF v = "frontend" /\ n = frames /\ write_pos + n <= size
    THEN WriteLoopFast(mem, write_pos, data, n, 0)
    ELSE WriteLoop(mem, write_pos, size, data, n, 0)

\* a write position that is not wrapped
AdvanceWritePos_nowrap(write_pos, n, size) == write_pos + n

\* write_pos after a write of n frames
AdvanceWritePos(write_pos, n, size) == (write_pos + n) % size

\* retro_audio_sample_batch_callback as a function of the state it reads:
\* the result is the new session, the new ring memory and the return value
AudioBatch(v, g, fe, mem, data_null, data, frames) ==
    IF g = NULL \/ data_null \/ frames = 0
    THEN [fe |-> fe, mem |-> mem, ret |-> 0]
    ELSE IF fe.audio_ring_buffer = NULL \/ fe.audio_ring_buffer_size = 0
    THEN [fe |-> fe, mem |-> mem, ret |-> 0]
    ELSE LET available_space == fe.audio_ring_buffer_size - fe.audio_ring_available
             n == FramesToWrite(frames, available_space)
         IN IF n = 0
            THEN [fe |-> fe, mem |-> mem, ret |-> 0]
            ELSE [fe |-> [fe EXCEPT
                            !.audio_ring_write_pos =
                                AdvanceWritePos(fe.audio_ring_write_pos, n,
                                                fe.audio_ring_buffer_size),
                            !.audio_ring_available = fe.audio_ring_available + n],
                  mem |-> RingWrite(v, mem, fe.audio_ring_write_pos,
                                    fe.audio_ring_buffer_size, data, frames, n),
                  ret |-> n]

\* the deferred callbacks the running plugin holds, "none" when unbound
BoundVariant ==
    IF frontend.core = NULL THEN "none" ELSE modules[frontend.core].bound

\* model bound: the default-size ring is only filled up to MaxWritePos
WithinRingBound(frames) ==
    \/ frontend.audio_ring_buffer_size <= MaxRateQ + 1
    \/ frontend.audio_ring_write_pos + frames <= MaxWritePos

\* the plugin calls the audio batch callback during retro_run
AudioSampleBatchCb(data_null, frames, data) ==
    /\ pc = "in_run"
    /\ BoundVariant \in Variants
    /\ WithinRingBound(frames)
    /\ LET v == BoundVariant
           r == AudioBatch(v, AudioG(v), frontend, ring_mem, data_null, data, frames)
       IN /\ frontend' = r.fe
          /\ ring_mem' = r.mem
          /\ call' = Call(IF data_null THEN "batch_null" ELSE "batch", frames, r.ret,
                          IF data_null THEN <<>> ELSE data, <<>>, {})
    /\ UNCHANGED <<modules, g_frontend, single_sample_count, single_sample_buffer,
                   format_auto_detected, pc>>
    /\ UNCHANGED <<variant, threads>>

\* retro_audio_sample_callback: accumulate, then flush at the threshold
AudioSampleCb(left, right) ==
    /\ pc = "in_run"
    /\ BoundVariant \in Variants
    /\ WithinRingBound(1)
    /\ LET v == BoundVariant
           g == AudioG(v)
           cnt == single_sample_count[v]
           buf == single_sample_buffer[v]
           \* first branch: room in the accumulator, or flush-then-restart
           r1 == IF cnt < SINGLE_SAMPLE_BUFFER_SIZE
                 THEN [fe |-> frontend, mem |-> ring_mem, ret |-> 0]
                 ELSE AudioBatch(v, g, frontend, ring_mem, FALSE, buf, cnt)
           buf1 == IF cnt < SINGLE_SAMPLE_BUFFER_SIZE
                   THEN buf \o <<left, right>> ELSE <<left, right>>
           cnt1 == IF cnt < SINGLE_SAMPLE_BUFFER_SIZE THEN cnt + 1 ELSE 1
           flush == cnt1 >= SINGLE_SAMPLE_FLUSH_THRESHOLD
           r2 == IF flush
                 THEN AudioBatch(v, g, r1.fe, r1.mem, FALSE, buf1, cnt1)
                 ELSE r1
       IN IF g = NULL
          THEN /\ UNCHANGED <<frontend, ring_mem, single_sample_count,
                              single_sample_buffer>>
               /\ call' = Call("sample", 1, 0, <<left, right>>, <<>>, {})
          ELSE /\ frontend' = r2.fe
               /\ ring_mem' = r2.mem
               /\ single_sample_count' =
                    [single_sample_count EXCEPT ![v] = IF flush THEN 0 ELSE cnt1]
               /\ single_sample_buffer' =
                    [single_sample_buffer EXCEPT ![v] = IF flush THEN <<>> ELSE buf1]
               /\ call' = Call("sample", 1, r2.ret, <<left, right>>, <<>>, {})
    /\ UNCHANGED <<modules, g_frontend, format_auto_detected, pc>>
    /\ UNCHANGED <<variant, threads>>

-----------------------------------------------------------------------------
(* Audio ring buffer: read side *)

\* a read that does not clamp to the buffered frames
FramesToRead_unclamped(max_frames, available) == max_frames

\* frames_to_read = (max_frames < available) ? max_frames : available
FramesToRead(max_frames, available) ==
    IF max_frames < available THEN max_frames ELSE available

\* the frames copied to the caller's buffer, oldest first
RECURSIVE ReadLoop(_, _, _, _, _)
ReadLoop(mem, read_pos, size, n, i) ==
    IF i >= n THEN <<>>
    ELSE <<Cell(mem, (read_pos + i) % size)>> \o ReadLoop(mem, read_pos, size, n, i + 1)

\* the memcpy fast path: contiguous, no modulo
RECURSIVE ReadLoopFast(_, _, _, _)
ReadLoopFast(mem, read_pos, n, i) ==
    IF i >= n THEN <<>>
    ELSE <<Cell(mem, read_pos + i)>> \o ReadLoopFast(mem, read_pos, n, i + 1)

\* a read that always takes the contiguous path
RingRead_contiguous(mem, read_pos, size, available, n) ==
    ReadLoopFast(mem, read_pos, n, 0)

RingRead(mem, read_pos, size, available, n) ==
    IF n = available /\ read_pos + n <= size
    THEN ReadLoopFast(mem, read_pos, n, 0)
    ELSE ReadLoop(mem, read_pos, size, n, 0)

\* a read position that is not advanced
AdvanceReadPos_stay(read_pos, n, size) == read_pos

\* read_pos after a read of n frames
AdvanceReadPos(read_pos, n, size) == (read_pos + n) % size

\* libretro_frontend_get_audio_samples, called by the host between frames
GetAudioSamples(buffer_null, max_frames) ==
    /\ pc = "idle"
    /\ LET n == FramesToRead(max_frames, frontend.audio_ring_available)
       IN IF buffer_null \/ max_frames = 0 \/ n = 0
          THEN /\ UNCHANGED frontend
               /\ call' = Call(IF buffer_null THEN "read_null" ELSE "read",
                               max_frames, 0, <<>>, <<>>, {})
          ELSE /\ frontend' =
                    [frontend EXCEPT
                        !.audio_ring_read_pos =
                            AdvanceReadPos(frontend.audio_ring_read_pos, n,
                                           frontend.audio_ring_buffer_size),
                        !.audio_ring_available = frontend.audio_ring_available - n]
               /\ call' = Call("read", max_frames, n, JustWritten,
                               RingRead(ring_mem, frontend.audio_ring_read_pos,
                                        frontend.audio_ring_buffer_size,
                                        frontend.audio_ring_available, n), {})
    /\ UNCHANGED <<ring_mem, modules, g_frontend, single_sample_count,
                   single_sample_buffer, format_auto_detected, pc>>
    /\ UNCHANGED <<variant, threads>>

-----------------------------------------------------------------------------
(* The ring buffer accessed from two threads: the batch write of the
   emulation thread and the read of an audio thread, one step per load or
   store of audio_ring_available. write_pos is touched by the writer only and
   read_pos by the reader only, so the copy and the index update are one step *)

\* no operation in progress; accepted and consumed are the frames the
\* completed writes returned and the completed reads returned
IdleThreads ==
    [w_pc |-> "idle", frames |-> 0, frames_to_write |-> 0, w_tmp |-> 0,
     r_pc |-> "idle", frames_to_read |-> 0, r_tmp |-> 0,
     accepted |-> 0, consumed |-> 0]

\* the int16 buffer of a batch of the given length
BatchData(frames) == [i \in 1..(2 * frames) |-> 1]

\* libretro_audio.c:79-101: the guards, the load of audio_ring_available for
\* available_space, and frames_to_write
WriteBegin(frames) ==
    /\ pc = "in_run"
    /\ BoundVariant \in Variants
    /\ threads.w_pc = "idle"
    /\ threads.accepted < MaxTransfer
    /\ AudioG(BoundVariant) # NULL
    /\ frontend.audio_ring_buffer # NULL /\ frontend.audio_ring_buffer_size # 0
    /\ LET available_space ==
               frontend.audio_ring_buffer_size - frontend.audio_ring_available
           n == FramesToWrite(frames, available_space)
       IN /\ n # 0
          /\ threads' = [threads EXCEPT !.w_pc = "copy", !.frames = frames,
                                        !.frames_to_write = n]
    /\ UNCHANGED <<frontend, ring_mem, modules, g_frontend, single_sample_count,
                   single_sample_buffer, format_auto_detected, pc, variant, call>>

\* lines 104-112: the copy into the ring and the new write_pos
WriteCopyAdvance ==
    /\ threads.w_pc = "copy"
    /\ ring_mem' = RingWrite(BoundVariant, ring_mem, frontend.audio_ring_write_pos,
                             frontend.audio_ring_buffer_size,
                             BatchData(threads.frames), threads.frames,
                             threads.frames_to_write)
    /\ frontend' = [frontend EXCEPT !.audio_ring_write_pos =
                        AdvanceWritePos(@, threads.frames_to_write,
                                        frontend.audio_ring_buffer_size)]
    /\ threads' = [threads EXCEPT !.w_pc = "load"]
    /\ UNCHANGED <<modules, g_frontend, single_sample_count,
                   single_sample_buffer, format_auto_detected, pc, variant, call>>

\* line 113, audio_ring_available += frames_to_write: the load
WriteLoadAvailable ==
    /\ threads.w_pc = "load"
    /\ threads' = [threads EXCEPT !.w_pc = "store",
                                  !.w_tmp = frontend.audio_ring_available]
    /\ UNCHANGED <<frontend, ring_mem, modules, g_frontend, single_sample_count,
                   single_sample_buffer, format_auto_detected, pc, variant, call>>

\* line 113: the store, and the return of frames_to_write
WriteStoreAvailable ==
    /\ threads.w_pc = "store"
    /\ frontend' = [frontend EXCEPT !.audio_ring_available =
                        threads.w_tmp + threads.frames_to_write]
    /\ threads' = [threads EXCEPT !.w_pc = "idle", !.frames = 0,
                                  !.frames_to_write = 0, !.w_tmp = 0,
                                  !.accepted = @ + threads.frames_to_write]
    /\ UNCHANGED <<ring_mem, modules, g_frontend, single_sample_count,
                   single_sample_buffer, format_auto_detected, pc, variant, call>>

\* libretro_frontend.c:1007-1011: the guards, the load of
\* audio_ring_available, and frames_to_read
ReadBegin(max_frames) ==
    /\ pc \in {"idle", "in_run"}
    /\ BoundVariant \in Variants
    /\ threads.r_pc = "idle"
    /\ threads.consumed < MaxTransfer
    /\ max_frames # 0
    /\ LET n == FramesToRead(max_frames, frontend.audio_ring_available)
       IN /\ n # 0
          /\ threads' = [threads EXCEPT !.r_pc = "copy", !.frames_to_read = n]
    /\ UNCHANGED <<frontend, ring_mem, modules, g_frontend, single_sample_count,
                   single_sample_buffer, format_auto_detected, pc, variant, call>>

\* lines 1014-1030: the copy out of the ring and the new read_pos
ReadCopyAdvance ==
    /\ threads.r_pc = "copy"
    /\ frontend' = [frontend EXCEPT !.audio_ring_read_pos =
                        AdvanceReadPos(@, threads.frames_to_read,
                                       frontend.audio_ring_buffer_size)]
    /\ threads' = [threads EXCEPT !.r_pc = "load"]
    /\ UNCHANGED <<ring_mem, modules, g_frontend, single_sample_count,
                   single_sample_buffer, format_auto_detected, pc, variant, call>>

\* line 1031, audio_ring_available -= frames_to_read: the load
ReadLoadAvailable ==
    /\ threads.r_pc = "load"
    /\ threads' = [threads EXCEPT !.r_pc = "store",
                                  !.r_tmp = frontend.audio_ring_available]
    /\ UNCHANGED <<frontend, ring_mem, modules, g_frontend, single_sample_count,
                   single_sample_buffer, format_auto_detected, pc, variant, call>>

\* line 1031: the store, and the return of frames_to_read
ReadStoreAvailable ==
    /\ threads.r_pc = "store"
    /\ frontend' = [frontend EXCEPT !.audio_ring_available =
                        threads.r_tmp - threads.frames_to_read]
    /\ threads' = [threads EXCEPT !.r_pc = "idle", !.frames_to_read = 0,
                                  !.r_tmp = 0,
                                  !.consumed = @ + threads.frames_to_read]
    /\ UNCHANGED <<ring_mem, modules, g_frontend, single_sample_count,
                   single_sample_buffer, format_auto_detected, pc, variant, call>>

-----------------------------------------------------------------------------
(* The native module: exported symbols and plugin-side state *)

SetterSyms == {"retro_set_video_refresh", "retro_set_audio_sample",
               "retro_set_audio_sample_batch", "retro_set_input_poll",
               "retro_set_input_state"}

CoreSyms == {"retro_init", "retro_deinit", "retro_get_system_info",
             "retro_get_system_av_info", "retro_run", "retro_load_game",
             "retro_unload_game"}

AllSyms == {"retro_set_environment"} \cup SetterSyms \cup CoreSyms

\* a library exporting everything
FullLib == AllSyms

\* saturating call counter
Sat(c) == IF c < MaxCount THEN c + 1 ELSE c

\* a freshly dlopen'ed module
NewModule(lib) ==
    [lib |-> lib, open |-> TRUE, core_rec |-> "none", env_cb |-> "none",
     bound |-> "none", inited |-> FALSE, game_loads |-> 0,
     unload_game_calls |-> 0, deinit_calls |-> 0, steps |-> <<>>,
     no_game |-> FALSE]

\* dlsym(handle, name) != NULL
Resolved(lib, name) == name \in lib

\* the plugin-reported AV info: base width, base height, sample rate
Dims == 1..MaxDim
SampleRates == {0, 2, DefaultSampleRate} \cup {4 * q : q \in 1..MaxRateQ}

-----------------------------------------------------------------------------
(* libretro_core_load / libretro_frontend_load_core *)

\* the symbols whose absence fails the load before the environment is registered
SettersRequired(v, lib) ==
    /\ Resolved(lib, "retro_set_environment")
    /\ v = "frontend" => SetterSyms \subseteq lib

\* a check that forgets the per-frame entry point
MandatoryResolved_init_only(lib) == Resolved(lib, "retro_init")

\* if (!frontend->core->retro_init || !frontend->core->retro_run) fails the load
MandatoryResolved(lib) ==
    Resolved(lib, "retro_init") /\ Resolved(lib, "retro_run")

\* the static g_frontend written when the environment callback is registered
EnvRegistered(v, g) ==
    IF v = "frontend" THEN [g EXCEPT !.fe = 1] ELSE [g EXCEPT !.env = 1]

\* one step of a load on the module: a dlsym of an entry point, a call of
\* one, or the write of the static g_frontend the environment callback reads
Step(op, sym) == [op |-> op, sym |-> sym]

StepsOf(op, syms) == [i \in 1..Len(syms) |-> Step(op, syms[i])]

\* the setters in the order libretro_frontend_load_core resolves them
SetterOrder == <<"retro_set_video_refresh", "retro_set_audio_sample",
                 "retro_set_audio_sample_batch", "retro_set_input_poll",
                 "retro_set_input_state">>

\* the entry points of the core record in the order both loads resolve them
CoreOrder == <<"retro_init", "retro_deinit", "retro_get_system_info",
               "retro_get_system_av_info", "retro_run", "retro_load_game",
               "retro_unload_game">>

\* the symbols resolved before the check that fails the load early
ResolvedFirst(v) ==
    <<Step("dlsym", "retro_set_environment")>>
        \o (IF v = "frontend" THEN StepsOf("dlsym", SetterOrder) ELSE <<>>)

\* g_frontend = frontend, then set_env(retro_environment_callback)
RegisterEnv == <<Step("store", "g_frontend"), Step("call", "retro_set_environment")>>

\* a load that fills the core record before it registers the environment
LoadSteps_register_last(v, lib) ==
    IF ~SettersRequired(v, lib) THEN ResolvedFirst(v)
    ELSE ResolvedFirst(v) \o StepsOf("dlsym", CoreOrder) \o RegisterEnv

\* the steps of a load on a module whose core record was allocated
LoadSteps(v, lib) ==
    IF ~SettersRequired(v, lib) THEN ResolvedFirst(v)
    ELSE ResolvedFirst(v) \o RegisterEnv \o StepsOf("dlsym", CoreOrder)

LoadCore(v, lib, dlopen_ok, calloc_ok) ==
    /\ pc = "idle"
    /\ Len(modules) < MaxLoads
    /\ LET id == Len(modules) + 1
           m == [NewModule(lib) EXCEPT
                    !.steps = IF calloc_ok THEN LoadSteps(v, lib) ELSE <<>>]
       IN IF ~dlopen_ok
          THEN /\ UNCHANGED <<frontend, modules, g_frontend>>
               /\ call' = Call("load", 0, 0, <<>>, <<>>, {})
          ELSE IF ~calloc_ok
          THEN /\ frontend' = [frontend EXCEPT !.core_handle = NULL, !.core = NULL]
               /\ modules' = Append(modules, [m EXCEPT !.open = FALSE])
               /\ UNCHANGED g_frontend
               /\ call' = Call("load", id, 0, <<>>, <<>>, {})
          ELSE IF ~SettersRequired(v, lib)
          THEN /\ frontend' = [frontend EXCEPT !.core_handle = NULL, !.core = NULL]
               /\ modules' = Append(modules, [m EXCEPT !.open = FALSE,
                                                       !.core_rec = "freed"])
               /\ UNCHANGED g_frontend
               /\ call' = Call("load", id, 0, <<>>, <<>>, {})
          ELSE IF ~MandatoryResolved(lib)
          THEN /\ frontend' = [frontend EXCEPT !.core_handle = NULL, !.core = NULL,
                                               !.has_set_environment = TRUE]
               /\ modules' = Append(modules, [m EXCEPT !.open = FALSE,
                                                       !.core_rec = "freed",
                                                       !.env_cb = v])
               /\ g_frontend' = EnvRegistered(v, g_frontend)
               /\ call' = Call("load", id, 0, <<>>, <<>>, {})
          ELSE /\ frontend' = [frontend EXCEPT !.core_handle = id, !.core = id,
                                               !.has_set_environment = TRUE]
               /\ modules' = Append(modules, [m EXCEPT !.core_rec = "live",
                                                       !.env_cb = v])
               /\ g_frontend' = EnvRegistered(v, g_frontend)
               /\ call' = Call("load", id, 1, <<>>, <<>>, {})
    /\ UNCHANGED <<ring_mem, single_sample_count, single_sample_buffer,
                   format_auto_detected, pc>>
    /\ UNCHANGED <<variant, threads>>

-----------------------------------------------------------------------------
(* libretro_core_init / libretro_frontend_init_core *)

InitCore(need_fullpath) ==
    /\ pc = "idle"
    /\ IF frontend.core = NULL
       THEN /\ UNCHANGED <<frontend, modules>>
            /\ call' = Call("init", 0, 0, <<>>, <<>>, {})
       ELSE LET id == frontend.core
                lib == modules[id].lib
            IN /\ frontend' =
                    [frontend EXCEPT
                        !.need_fullpath =
                            IF Resolved(lib, "retro_get_system_info")
                            THEN need_fullpath ELSE frontend.need_fullpath,
                        !.width = DefaultCoreWidth, !.height = DefaultCoreHeight,
                        !.initialized = TRUE]
               /\ modules' = [modules EXCEPT ![id].inited =
                                 Resolved(lib, "retro_init") \/ modules[id].inited]
               /\ call' = Call("init", id, 1, <<>>, <<>>, {})
    /\ UNCHANGED <<ring_mem, g_frontend, single_sample_count, single_sample_buffer,
                   format_auto_detected, pc>>
    /\ UNCHANGED <<variant, threads>>

-----------------------------------------------------------------------------
(* libretro_core_update_av_info / libretro_frontend_update_av_info *)

\* width * height * 4 (the unsigned product does not wrap for dimensions within MaxDim)
FrameBytes(w, h) == w * h * 4

\* audio_ring_buffer_size for a sample rate
RingSizeFor(rate) == IF rate \div 4 = 0 THEN FallbackRingSize ELSE rate \div 4

\* the sample rate taken from the plugin's report
ReportedRate(rate) == IF rate = 0 THEN DefaultSampleRate ELSE rate

\* the ring buffer part: reallocate when the rate changed
ReallocRing(fe, new_sample_rate, ring_ok) ==
    IF new_sample_rate # fe.audio_sample_rate
    THEN [fe EXCEPT !.audio_sample_rate = new_sample_rate,
                    !.audio_ring_buffer_size = RingSizeFor(new_sample_rate),
                    !.audio_ring_buffer = IF ring_ok THEN 1 ELSE NULL,
                    !.audio_ring_read_pos = 0,
                    !.audio_ring_write_pos = 0,
                    !.audio_ring_available = 0]
    ELSE fe

\* a reallocation that keeps the freed pointer (2: a pointer to a freed
\* block) when calloc fails
ReallocFramebuffer_stale(fe, fb_ok) ==
    LET new_size == FrameBytes(fe.width, fe.height)
    IN IF new_size # fe.framebuffer_size \/ fe.framebuffer = NULL
       THEN [fe EXCEPT !.framebuffer = IF fb_ok THEN 1
                                       ELSE IF fe.framebuffer = NULL THEN NULL
                                       ELSE 2,
                       !.framebuffer_size = IF fb_ok THEN new_size ELSE 0]
       ELSE fe

\* the framebuffer part: reallocate when the size changed or nothing is allocated
ReallocFramebuffer(fe, fb_ok) ==
    LET new_size == FrameBytes(fe.width, fe.height)
    IN IF new_size # fe.framebuffer_size \/ fe.framebuffer = NULL
       THEN [fe EXCEPT !.framebuffer = IF fb_ok THEN 1 ELSE NULL,
                       !.framebuffer_size = IF fb_ok THEN new_size ELSE 0]
       ELSE fe

\* the whole function, on the session and the ring memory
UpdateAvInfoOn(fe, mem, av, ring_ok, fb_ok) ==
    IF fe.core = NULL \/ ~Resolved(modules[fe.core].lib, "retro_get_system_av_info")
    THEN [fe |-> fe, mem |-> mem, freed |-> <<>>]
    ELSE LET fe1 == [fe EXCEPT !.width = av.width, !.height = av.height]
             fe2 == ReallocRing(fe1, ReportedRate(av.sample_rate), ring_ok)
             new_size == FrameBytes(fe2.width, fe2.height)
         IN [fe |-> ReallocFramebuffer(fe2, fb_ok),
             mem |-> IF fe2.audio_sample_rate # fe.audio_sample_rate
                     THEN EmptyMem ELSE mem,
             \* if (frontend->audio_ring_buffer) free(...), then
             \* if (frontend->framebuffer) free(...)
             freed |->
                (IF ReportedRate(av.sample_rate) # fe1.audio_sample_rate
                       /\ fe1.audio_ring_buffer # NULL
                 THEN Free("audio_ring_buffer", fe1.audio_ring_buffer,
                           fe1.audio_ring_buffer_size)
                 ELSE <<>>)
                \o (IF (new_size # fe2.framebuffer_size \/ fe2.framebuffer = NULL)
                          /\ fe2.framebuffer # NULL
                    THEN Free("framebuffer", fe2.framebuffer, fe2.framebuffer_size)
                    ELSE <<>>)]

UpdateAvInfo(av, ring_ok, fb_ok) ==
    /\ pc = "idle"
    /\ LET r == UpdateAvInfoOn(frontend, ring_mem, av, ring_ok, fb_ok)
       IN /\ frontend' = r.fe
          /\ ring_mem' = r.mem
    /\ call' = [Call("update_av_info", av.sample_rate, 0, <<>>, <<>>, {})
                    EXCEPT !.freed =
                        UpdateAvInfoOn(frontend, ring_mem, av, ring_ok, fb_ok).freed]
    /\ UNCHANGED <<modules, g_frontend, single_sample_count, single_sample_buffer,
                   format_auto_detected, pc>>
    /\ UNCHANGED <<variant, threads>>

-----------------------------------------------------------------------------
(* libretro_core_load_rom / libretro_frontend_load_rom *)

\* a load_rom that binds whatever load-game answered
ShouldBind_always(success) == TRUE

\* the deferred callbacks are bound only after load-game reported success
ShouldBind(success) == success

\* setup_callbacks_after_load (inlined in libretro_frontend_load_rom): the
\* plugin-side registration, as the new `bound` of module fe.core_handle
BindCallbacks(v, fe, mods) ==
    IF ~fe.has_set_video_refresh /\ SetterSyms \subseteq mods[fe.core_handle].lib
    THEN [mods EXCEPT ![fe.core_handle].bound = v]
    ELSE mods

\* ... and the session flags
BoundFlags(fe, mods) ==
    IF ~fe.has_set_video_refresh /\ SetterSyms \subseteq mods[fe.core_handle].lib
    THEN [fe EXCEPT !.has_set_video_refresh = TRUE,
                    !.has_set_audio_sample = TRUE,
                    !.has_set_audio_sample_batch = TRUE,
                    !.has_set_input_poll = TRUE,
                    !.has_set_input_state = TRUE]
    ELSE fe

\* rom is "none" for a NULL rom_path, "path" otherwise; io_ok is the outcome of
\* realpath / fopen / ftell / malloc / fread; success is the plugin's answer
LoadRom(v, rom, io_ok, success, av, ring_ok, fb_ok) ==
    /\ pc = "idle"
    /\ IF frontend.core = NULL
       THEN /\ UNCHANGED <<frontend, ring_mem, modules, pc>>
            /\ call' = Call("load_rom", 0, 0, <<>>, <<>>, {})
       ELSE LET id == frontend.core
                lib == modules[id].lib
                played == [modules EXCEPT ![id].game_loads = Sat(modules[id].game_loads)]
                stored == IF rom = "none"
                          THEN frontend
                          ELSE [frontend EXCEPT
                                  !.rom_data = IF frontend.need_fullpath THEN NULL ELSE 1,
                                  !.rom_path = id]
                r == UpdateAvInfoOn(BoundFlags(stored, played), ring_mem, av,
                                    ring_ok, fb_ok)
                done == IF rom = "none"
                        THEN [r.fe EXCEPT !.rom_path = NULL, !.rom_data = NULL]
                        ELSE r.fe
            IN IF ~Resolved(lib, "retro_load_game")
               THEN \* the no-game branch calls through the unresolved pointer
                    /\ pc' = IF rom = "none" THEN "crashed" ELSE pc
                    /\ UNCHANGED <<frontend, ring_mem, modules>>
                    /\ call' = Call("load_rom", id, 0, <<>>, <<>>, {})
               ELSE IF rom = "path" /\ ~io_ok
               THEN /\ UNCHANGED <<frontend, ring_mem, modules, pc>>
                    /\ call' = Call("load_rom", id, 0, <<>>, <<>>, {})
               ELSE IF ~ShouldBind(success)
               THEN /\ UNCHANGED <<frontend, ring_mem, modules, pc>>
                    /\ call' = Call("load_rom", id, 0, <<>>, <<>>, {})
               ELSE /\ frontend' = done
                    /\ ring_mem' = r.mem
                    /\ modules' = BindCallbacks(v, stored,
                                     IF success THEN played ELSE modules)
                    /\ pc' = pc
                    /\ call' = [Call("load_rom", id, IF success THEN 1 ELSE 0,
                                     <<>>, <<>>, {}) EXCEPT !.freed = r.freed]
    /\ UNCHANGED <<g_frontend, single_sample_count, single_sample_buffer,
                   format_auto_detected>>
    /\ UNCHANGED <<variant, threads>>

-----------------------------------------------------------------------------
(* libretro_core_unload and libretro_frontend_deinit *)

\* if (core && core->retro_unload_game && rom_path): the teardown calls
\* retro_unload_game, on the plugin the session points to
CallsUnloadGame(fe, mods) ==
    /\ fe.core # NULL
    /\ Resolved(mods[fe.core].lib, "retro_unload_game")
    /\ fe.rom_path # NULL

\* the plugin entry points the teardown invokes, and the close of the module
Teardown(fe, mods) ==
    IF fe.core = NULL /\ fe.core_handle = NULL THEN mods
    ELSE LET id == IF fe.core # NULL THEN fe.core ELSE fe.core_handle
             lib == mods[id].lib
             m == mods[id]
             m1 == IF CallsUnloadGame(fe, mods)
                   THEN [m EXCEPT !.unload_game_calls = Sat(m.unload_game_calls)]
                   ELSE m
             m2 == IF fe.core # NULL /\ Resolved(lib, "retro_deinit") /\ fe.initialized
                   THEN [m1 EXCEPT !.deinit_calls = Sat(m1.deinit_calls)]
                   ELSE m1
             m3 == IF fe.core_handle # NULL THEN [m2 EXCEPT !.open = FALSE] ELSE m2
             m4 == IF fe.core # NULL
                   THEN [m3 EXCEPT !.core_rec = IF @ = "live" THEN "freed"
                                                ELSE "freed_twice"]
                   ELSE m3
         IN [mods EXCEPT ![id] = m4]

\* an unload that frees the module and the core record but keeps the pointers
Unloaded_dangling(fe) == [fe EXCEPT !.rom_data = NULL, !.rom_path = NULL]

\* libretro_core_unload: the session fields it resets
Unloaded(fe) == [fe EXCEPT !.rom_data = NULL, !.rom_path = NULL,
                           !.core_handle = NULL, !.core = NULL]

Unload ==
    /\ pc = "idle"
    /\ modules' = Teardown(frontend, modules)
    /\ frontend' = Unloaded(frontend)
    /\ call' = Call("unload", frontend.core, 0, <<>>, <<>>, {})
    /\ UNCHANGED <<ring_mem, g_frontend, single_sample_count, single_sample_buffer,
                   format_auto_detected, pc>>
    /\ UNCHANGED <<variant, threads>>

\* libretro_frontend_deinit: teardown, free the buffers, memset the session
Deinit ==
    /\ pc = "idle"
    /\ modules' = Teardown(frontend, modules)
    /\ frontend' = ZeroFrontend
    /\ ring_mem' = EmptyMem
    /\ call' = [Call("deinit", frontend.core, 0, <<>>, <<>>, {})
                    EXCEPT !.freed =
                        (IF frontend.framebuffer # NULL
                         THEN Free("framebuffer", frontend.framebuffer,
                                   frontend.framebuffer_size)
                         ELSE <<>>)
                        \o (IF frontend.audio_ring_buffer # NULL
                            THEN Free("audio_ring_buffer", frontend.audio_ring_buffer,
                                      frontend.audio_ring_buffer_size)
                            ELSE <<>>)]
    /\ UNCHANGED <<g_frontend, single_sample_count, single_sample_buffer,
                   format_auto_detected, pc>>
    /\ UNCHANGED <<variant, threads>>

\* libretro_frontend_init on a destroyed session
FrontendInit(ring_ok) ==
    /\ pc = "idle"
    /\ frontend = ZeroFrontend
    /\ frontend' = libretro_frontend_init(ring_ok)
    /\ ring_mem' = EmptyMem
    /\ g_frontend' = [g_frontend EXCEPT !.fe = 1]
    /\ call' = Call("frontend_init", 0, 1, <<>>, <<>>, {})
    /\ UNCHANGED <<modules, single_sample_count, single_sample_buffer,
                   format_auto_detected, pc>>
    /\ UNCHANGED <<variant, threads>>

\* libretro_audio_set_frontend / libretro_video_set_frontend /
\* libretro_input_set_frontend / libretro_environment_set_frontend
SetFrontend(which, ptr) ==
    /\ pc = "idle"
    /\ g_frontend' = [g_frontend EXCEPT ![which] = ptr]
    /\ call' = Call("set_frontend", ptr, 0, <<>>, <<>>, {})
    /\ UNCHANGED <<frontend, ring_mem, modules, single_sample_count,
                   single_sample_buffer, format_auto_detected, pc>>
    /\ UNCHANGED <<variant, threads>>

-----------------------------------------------------------------------------
(* libretro_frontend_run_frame *)

\* entry: the guards, the input poll, and the call into the plugin's retro_run
RunFrameBegin ==
    /\ pc = "idle"
    /\ IF frontend.core = NULL \/ ~frontend.initialized
       THEN pc' = pc
       ELSE pc' = IF Resolved(modules[frontend.core].lib, "retro_run")
                  THEN "in_run" ELSE "flush"
    /\ call' = Call("run_frame", frontend.core, 0, <<>>, <<>>, {})
    /\ UNCHANGED <<frontend, ring_mem, modules, g_frontend, single_sample_count,
                   single_sample_buffer, format_auto_detected>>
    /\ UNCHANGED <<variant, threads>>

\* retro_run returned: flush_single_sample_buffer, then return to the host
RunFrameEnd ==
    /\ pc \in {"in_run", "flush"}
    /\ LET cnt == single_sample_count["frontend"]
           r == AudioBatch("frontend", g_frontend.fe, frontend, ring_mem, FALSE,
                           single_sample_buffer["frontend"], cnt)
       IN IF cnt > 0 /\ g_frontend.fe # NULL
          THEN /\ frontend' = r.fe
               /\ ring_mem' = r.mem
               /\ single_sample_count' = [single_sample_count EXCEPT !["frontend"] = 0]
               /\ single_sample_buffer' = [single_sample_buffer EXCEPT !["frontend"] = <<>>]
               /\ call' = Call("flush", cnt, r.ret, <<>>, <<>>, {})
          ELSE \* nothing to flush: control returns to the host, the last
               \* operation on the session stays the one the plugin made
               UNCHANGED <<frontend, ring_mem, single_sample_count,
                           single_sample_buffer, call>>
    /\ pc' = "idle"
    /\ UNCHANGED <<modules, g_frontend, format_auto_detected>>
    /\ UNCHANGED <<variant, threads>>

-----------------------------------------------------------------------------
(* retro_environment_callback *)

RETRO_ENVIRONMENT_SET_PIXEL_FORMAT == 10
ENV_SET_SYSTEM_AV_INFO == 32
ENV_SET_GEOMETRY == 37
RETRO_ENVIRONMENT_GET_SYSTEM_DIRECTORY == 7
RETRO_ENVIRONMENT_SET_SUPPORT_NO_GAME == 18
RETRO_ENVIRONMENT_GET_LOG_INTERFACE == 27
RETRO_ENVIRONMENT_GET_CONTENT_DIRECTORY == 30
RETRO_ENVIRONMENT_GET_SAVE_DIRECTORY == 31
RETRO_ENVIRONMENT_GET_AUDIO_VIDEO_ENABLE == 52
MaxCommandId == 60

\* the static g_frontend the environment callback of a variant reads
EnvG(v) == IF v = "frontend" THEN g_frontend.fe ELSE g_frontend.env

\* a handler that forgets the alias and records the canonical code
SetPixelFormat_alias_forgotten(fe, format) ==
    IF format \in {RETRO_PIXEL_FORMAT_0RGB1555, RETRO_PIXEL_FORMAT_XRGB8888}
    THEN [fe EXCEPT !.pixel_format = format, !.pixel_format_raw = format]
    ELSE [fe EXCEPT !.pixel_format = RETRO_PIXEL_FORMAT_RGB565,
                    !.pixel_format_raw = RETRO_PIXEL_FORMAT_RGB565]

\* case RETRO_ENVIRONMENT_SET_PIXEL_FORMAT
SetPixelFormat(fe, format) ==
    IF format = RETRO_PIXEL_FORMAT_0RGB1555
    THEN [fe EXCEPT !.pixel_format = RETRO_PIXEL_FORMAT_0RGB1555,
                    !.pixel_format_raw = format]
    ELSE IF format = RETRO_PIXEL_FORMAT_XRGB8888
    THEN [fe EXCEPT !.pixel_format = RETRO_PIXEL_FORMAT_XRGB8888,
                    !.pixel_format_raw = format]
    ELSE IF format = RETRO_PIXEL_FORMAT_RGB555
    THEN [fe EXCEPT !.pixel_format = RETRO_PIXEL_FORMAT_RGB565,
                    !.pixel_format_raw = 12]
    ELSE [fe EXCEPT !.pixel_format = RETRO_PIXEL_FORMAT_RGB565,
                    !.pixel_format_raw = format]

\* case 32: only the recorded rate changes, and only for a non-zero new rate
SetSystemAvInfo(fe, av) ==
    [fe EXCEPT !.width = av.width, !.height = av.height,
               !.audio_sample_rate =
                    IF av.sample_rate > 0 /\ av.sample_rate # fe.audio_sample_rate
                    THEN av.sample_rate ELSE fe.audio_sample_rate]

\* case 37
SetGeometry(fe, av) == [fe EXCEPT !.width = av.width, !.height = av.height]

PixelFormats == {0, 1, 2, 12, 7}

\* the plugin issues SET_PIXEL_FORMAT
EnvSetPixelFormat(format) ==
    /\ pc = "in_run"
    /\ modules[frontend.core].env_cb \in Variants
    /\ IF EnvG(modules[frontend.core].env_cb) = NULL
       THEN /\ UNCHANGED frontend
            /\ call' = Call("env10", format, 0, <<>>, <<>>, {})
       ELSE /\ frontend' = SetPixelFormat(frontend, format)
            /\ call' = Call("env10", format, 1, <<>>, <<>>, {})
    /\ UNCHANGED <<ring_mem, modules, g_frontend, single_sample_count,
                   single_sample_buffer, format_auto_detected, pc>>
    /\ UNCHANGED <<variant, threads>>

\* the plugin issues SET_PIXEL_FORMAT with a NULL payload: the case reads
\* *format without testing data, so the read is through a null pointer. The
\* process faults, or the read yields whatever the address holds
EnvSetPixelFormatNull ==
    /\ pc = "in_run"
    /\ modules[frontend.core].env_cb \in Variants
    /\ IF EnvG(modules[frontend.core].env_cb) = NULL
       THEN /\ UNCHANGED <<frontend, pc>>
            /\ call' = Call("env10_null", 0, 0, <<>>, <<>>, {})
       ELSE \/ /\ pc' = "crashed"
               /\ UNCHANGED frontend
               /\ call' = Call("env10_null", 0, 0, <<>>, <<>>, {})
            \/ \E format \in PixelFormats :
                  /\ frontend' = SetPixelFormat(frontend, format)
                  /\ call' = Call("env10_null", format, 1, <<>>, <<>>, {})
                  /\ UNCHANGED pc
    /\ UNCHANGED <<ring_mem, modules, g_frontend, single_sample_count,
                   single_sample_buffer, format_auto_detected>>
    /\ UNCHANGED <<variant, threads>>

\* the plugin issues SET_SYSTEM_AV_INFO (cmd 32) or SET_GEOMETRY (cmd 37)
EnvSetAv(cmd, data_null, av) ==
    /\ pc = "in_run"
    /\ modules[frontend.core].env_cb \in Variants
    /\ IF EnvG(modules[frontend.core].env_cb) = NULL \/ data_null
       THEN /\ UNCHANGED frontend
            /\ call' = Call(IF data_null
                            THEN IF cmd = ENV_SET_SYSTEM_AV_INFO
                                 THEN "env32_null" ELSE "env37_null"
                            ELSE IF cmd = ENV_SET_SYSTEM_AV_INFO
                                 THEN "env32" ELSE "env37",
                            av.sample_rate, 0, <<>>, <<>>, {})
       ELSE /\ frontend' = IF cmd = ENV_SET_SYSTEM_AV_INFO
                           THEN SetSystemAvInfo(frontend, av)
                           ELSE SetGeometry(frontend, av)
            /\ call' = Call(IF cmd = ENV_SET_SYSTEM_AV_INFO THEN "env32" ELSE "env37",
                            av.sample_rate, 1, <<>>, <<>>, {})
    /\ UNCHANGED <<ring_mem, modules, g_frontend, single_sample_count,
                   single_sample_buffer, format_auto_detected, pc>>
    /\ UNCHANGED <<variant, threads>>

\* the plugin issues SET_SUPPORT_NO_GAME with a pointer to its support flag:
\* the handler overwrites the flag with true and keeps nothing in the session
\* (no_game is what the plugin advertised, out is what the handler wrote back)
EnvSetSupportNoGame(data_null, support) ==
    /\ pc = "in_run"
    /\ modules[frontend.core].env_cb \in Variants
    /\ IF EnvG(modules[frontend.core].env_cb) = NULL \/ data_null
       THEN /\ UNCHANGED modules
            /\ call' = Call(IF data_null THEN "env18_null" ELSE "env18",
                            0, 0, <<>>, <<>>, {})
       ELSE /\ modules' = [modules EXCEPT ![frontend.core].no_game = support]
            /\ call' = Call("env18", 0, 1, <<support>>, <<TRUE>>, {})
    /\ UNCHANGED <<frontend, ring_mem, g_frontend, single_sample_count,
                   single_sample_buffer, format_auto_detected, pc>>
    /\ UNCHANGED <<variant, threads>>

\* the cases that write an answer through the payload pointer
PayloadCmds == {RETRO_ENVIRONMENT_GET_SYSTEM_DIRECTORY,
                RETRO_ENVIRONMENT_GET_SAVE_DIRECTORY,
                RETRO_ENVIRONMENT_GET_CONTENT_DIRECTORY,
                RETRO_ENVIRONMENT_GET_AUDIO_VIDEO_ENABLE,
                RETRO_ENVIRONMENT_GET_LOG_INTERFACE}

\* the cases that only return true
AckCmds == {9, 12, 14, 53, 22, 39, 11, 33, 34, 35, 36, 38}

\* every case label of the switch
RecognisedCmds ==
    PayloadCmds \cup AckCmds \cup
    {RETRO_ENVIRONMENT_SET_PIXEL_FORMAT, RETRO_ENVIRONMENT_SET_SUPPORT_NO_GAME,
     ENV_SET_SYSTEM_AV_INFO, ENV_SET_GEOMETRY}

\* what a payload case stores through data
PayloadAnswer(cmd) ==
    IF cmd = RETRO_ENVIRONMENT_GET_SYSTEM_DIRECTORY THEN <<".">>
    ELSE IF cmd = RETRO_ENVIRONMENT_GET_AUDIO_VIDEO_ENABLE THEN <<3>>
    ELSE IF cmd = RETRO_ENVIRONMENT_GET_LOG_INTERFACE THEN <<"retro_log_callback">>
    ELSE <<"./">>

\* a handler whose default branch claims support
EnvReturn_default_true(cmd, data_null) ==
    IF cmd \in PayloadCmds THEN ~data_null ELSE TRUE

\* the value the switch returns for the cases that leave the session alone
EnvReturn(cmd, data_null) ==
    IF cmd \in PayloadCmds THEN ~data_null ELSE cmd \in AckCmds

\* the plugin issues a command other than 10, 18, 32 and 37
EnvCommand(cmd, data_null) ==
    /\ pc = "in_run"
    /\ modules[frontend.core].env_cb \in Variants
    /\ cmd \notin {RETRO_ENVIRONMENT_SET_PIXEL_FORMAT,
                   RETRO_ENVIRONMENT_SET_SUPPORT_NO_GAME,
                   ENV_SET_SYSTEM_AV_INFO, ENV_SET_GEOMETRY}
    /\ IF EnvG(modules[frontend.core].env_cb) = NULL
       THEN call' = Call(IF cmd \in PayloadCmds /\ data_null
                         THEN "env_null" ELSE "env", cmd, 0, <<>>, <<>>, {})
       ELSE call' = Call(IF cmd \in PayloadCmds /\ data_null
                         THEN "env_null" ELSE "env", cmd,
                         IF EnvReturn(cmd, data_null) THEN 1 ELSE 0, <<>>,
                         IF cmd \in PayloadCmds /\ ~data_null
                         THEN PayloadAnswer(cmd) ELSE <<>>, {})
    /\ UNCHANGED <<frontend, ring_mem, modules, g_frontend, single_sample_count,
                   single_sample_buffer, format_auto_detected, pc>>
    /\ UNCHANGED <<variant, threads>>

-----------------------------------------------------------------------------
(* retro_video_refresh_callback *)

\* the static g_frontend the video callback of a variant reads
VideoG(v) == IF v = "frontend" THEN g_frontend.fe ELSE g_frontend.video

\* destination indices dst[y * stride + x], y < h, x < w
DstIndices(w, h, stride) ==
    {y * stride + x : y \in 0..(h - 1), x \in 0..(w - 1)}

\* the conversion loops of libretro_video.c: the indices they store to
ConvertCore(format, width, height, display_width, display_height) ==
    IF format = RETRO_PIXEL_FORMAT_XRGB8888
    THEN IF width = display_width /\ height = display_height
         THEN DstIndices(width, height, display_width)
         ELSE DstIndices(display_width, display_height, display_width)
    ELSE IF format \in {RETRO_PIXEL_FORMAT_RGB565, RETRO_PIXEL_FORMAT_0RGB1555}
    THEN DstIndices(width, height, width)
    ELSE {}

\* the source pixel <<x, y>> a loop over w x h destination pixels with the
\* given destination stride reads for each index it stores to: dst_line[x]
\* takes src_line[x] of row y
SourceDirect(w, h, stride) ==
    [i \in DstIndices(w, h, stride) |-> <<i % stride, i \div stride>>]

\* the scaling loop of the XRGB8888 case: src_x = (x * width) / display_width,
\* src_y = (y * height) / display_height
SourceScaled(width, height, display_width, display_height) ==
    [i \in DstIndices(display_width, display_height, display_width) |->
        <<((i % display_width) * width) \div display_width,
          ((i \div display_width) * height) \div display_height>>]

\* the conversion loops of libretro_video.c: the source pixel behind every
\* index they store to
SourceCore(format, width, height, display_width, display_height) ==
    IF format = RETRO_PIXEL_FORMAT_XRGB8888
    THEN IF width = display_width /\ height = display_height
         THEN SourceDirect(width, height, display_width)
         ELSE SourceScaled(width, height, display_width, display_height)
    ELSE IF format \in {RETRO_PIXEL_FORMAT_RGB565, RETRO_PIXEL_FORMAT_0RGB1555}
    THEN SourceDirect(width, height, width)
    ELSE <<>>

\* the conversion loop the switch on pixel_format runs; likely_rgb565 selects
\* the 16-bit loop inside the XRGB8888 case of libretro_frontend.c
LoopOf(format, likely_rgb565) ==
    IF format = RETRO_PIXEL_FORMAT_XRGB8888
    THEN IF likely_rgb565 THEN "rgb565" ELSE "xrgb8888"
    ELSE IF format = RETRO_PIXEL_FORMAT_RGB565 THEN "rgb565"
    ELSE IF format = RETRO_PIXEL_FORMAT_0RGB1555 THEN "0rgb1555"
    ELSE "none"

\* libretro_video.c: the session after the call, the indices written and the
\* conversion loop that ran
VideoCore(fe, width, height, fb_ok) ==
    LET fe0 == IF fe.framebuffer # NULL /\ fe.framebuffer_size = 0
               THEN [fe EXCEPT !.framebuffer = NULL] ELSE fe
        fe1 == [fe0 EXCEPT !.frame_width = width, !.frame_height = height]
        display_width == IF fe0.width > 0 THEN fe0.width ELSE width
        display_height == IF fe0.height > 0 THEN fe0.height ELSE height
        needed_size == FrameBytes(display_width, display_height)
        realloc == needed_size # fe1.framebuffer_size \/ fe1.framebuffer = NULL
        fe2 == IF realloc
               THEN [fe1 EXCEPT !.framebuffer = IF fb_ok THEN 1 ELSE NULL,
                                !.framebuffer_size = IF fb_ok THEN needed_size ELSE 0]
               ELSE fe1
        fe3 == [fe2 EXCEPT !.width = display_width, !.height = display_height]
        \* free only if (framebuffer != NULL && framebuffer_size > 0)
        freed == IF realloc /\ fe1.framebuffer # NULL /\ fe1.framebuffer_size > 0
                 THEN Free("framebuffer", fe1.framebuffer, fe1.framebuffer_size)
                 ELSE <<>>
    IN IF width = 0 \/ height = 0
       THEN [fe |-> fe0, idx |-> {}, conv |-> "none", src |-> <<>>, freed |-> <<>>]
       ELSE IF needed_size = 0
       THEN [fe |-> fe1, idx |-> {}, conv |-> "none", src |-> <<>>, freed |-> <<>>]
       ELSE IF realloc /\ ~fb_ok
       THEN [fe |-> fe2, idx |-> {}, conv |-> "none", src |-> <<>>, freed |-> freed]
       ELSE IF FrameBytes(display_width, display_height) > fe3.framebuffer_size
       THEN [fe |-> fe3, idx |-> {}, conv |-> "none", src |-> <<>>, freed |-> freed]
       ELSE [fe |-> fe3, freed |-> freed,
             idx |-> ConvertCore(fe3.pixel_format, width, height,
                                 display_width, display_height),
             conv |-> LoopOf(fe3.pixel_format, FALSE),
             src |-> SourceCore(fe3.pixel_format, width, height,
                                display_width, display_height)]

\* libretro_frontend.c: the one-time stride detection
AutoDetect(detected, format, width, pitch) ==
    /\ ~detected
    /\ format = RETRO_PIXEL_FORMAT_XRGB8888
    /\ \/ pitch = width * 2
       \/ pitch # width * 4 /\ pitch % 2 = 0

\* |a - b| on size_t
AbsDiff(a, b) == IF a > b THEN a - b ELSE b - a

\* libretro_frontend.c, case XRGB8888: the per-frame test that sends the frame
\* through the 16-bit loop. width - 4 is unsigned: below 4 it wraps to at
\* least 2^32 - 4, which no pitch / 2 of a frame reaches
LikelyRgb565(width, pitch) ==
    \/ AbsDiff(pitch, width * 2) < AbsDiff(pitch, width * 4)
          /\ AbsDiff(pitch, width * 2) <= 32
    \/ pitch = width * 2
    \/ /\ pitch % 2 = 0
       /\ width >= 4 /\ pitch \div 2 >= width - 4
       /\ pitch \div 2 <= width + 4

\* libretro_frontend.c: the session after the call, the indices written and
\* the conversion loop that ran
VideoFrontend(fe, detected, width, height, pitch, fb_ok) ==
    LET fe1 == IF AutoDetect(detected, fe.pixel_format, width, pitch)
               THEN [fe EXCEPT !.pixel_format = RETRO_PIXEL_FORMAT_RGB565] ELSE fe
        resize == width # fe1.width \/ height # fe1.height \/ fe1.framebuffer = NULL
        fe2 == IF resize
               THEN [fe1 EXCEPT !.width = width, !.height = height,
                                !.framebuffer_size = FrameBytes(width, height),
                                !.framebuffer = IF fb_ok THEN 1 ELSE NULL]
               ELSE fe1
        \* if (g_frontend->framebuffer) free(...), after framebuffer_size was
        \* overwritten; the event keeps the size recorded before the call
        freed == IF resize /\ fe1.framebuffer # NULL
                 THEN Free("framebuffer", fe1.framebuffer, fe1.framebuffer_size)
                 ELSE <<>>
    IN IF width = 0 \/ height = 0
       THEN [fe |-> fe, idx |-> {}, conv |-> "none", src |-> <<>>, freed |-> <<>>]
       ELSE IF fe2.framebuffer = NULL
       THEN [fe |-> fe2, idx |-> {}, conv |-> "none", src |-> <<>>, freed |-> freed]
       ELSE IF FrameBytes(width, height) > fe2.framebuffer_size
       THEN [fe |-> fe2, idx |-> {}, conv |-> "none", src |-> <<>>, freed |-> freed]
       ELSE LET known == fe2.pixel_format \in {RETRO_PIXEL_FORMAT_XRGB8888,
                                               RETRO_PIXEL_FORMAT_RGB565,
                                               RETRO_PIXEL_FORMAT_0RGB1555}
            IN [fe |-> fe2, freed |-> freed,
                idx |-> IF known THEN DstIndices(width, height, width) ELSE {},
                conv |-> LoopOf(fe2.pixel_format, LikelyRgb565(width, pitch)),
                src |-> IF known THEN SourceDirect(width, height, width)
                        ELSE <<>>]

\* the row strides the plugin passes for a frame of the given width: 16-bit
\* rows, 32-bit rows, and 32-bit rows with 1 or 4 bytes of padding
Pitches(width) == {width * 2, width * 4, width * 4 + 1, width * 4 + 4}

\* the plugin calls the video refresh callback during retro_run
VideoRefreshCb(data_null, width, height, pitch, fb_ok) ==
    /\ pc = "in_run"
    /\ BoundVariant \in Variants
    /\ LET v == BoundVariant
       IN IF VideoG(v) = NULL \/ data_null
          THEN /\ UNCHANGED <<frontend, format_auto_detected>>
               /\ call' = Call("video", 0, 0, <<>>, <<>>, {})
          ELSE IF v = "core"
          THEN LET r == VideoCore(frontend, width, height, fb_ok)
               IN /\ frontend' = r.fe
                  /\ UNCHANGED format_auto_detected
                  /\ call' = [Call("video", width * height, 1, <<width, pitch>>,
                                   <<r.conv, r.src>>, r.idx)
                                 EXCEPT !.freed = r.freed]
          ELSE LET r == VideoFrontend(frontend, format_auto_detected, width,
                                      height, pitch, fb_ok)
               IN /\ frontend' = r.fe
                  /\ format_auto_detected' =
                        (format_auto_detected \/
                         (width # 0 /\ height # 0 /\
                          AutoDetect(format_auto_detected, frontend.pixel_format,
                                     width, pitch)))
                  /\ call' = [Call("video", width * height, 1, <<width, pitch>>,
                                   <<r.conv, r.src>>, r.idx)
                                 EXCEPT !.freed = r.freed]
    /\ UNCHANGED <<ring_mem, modules, g_frontend, single_sample_count,
                   single_sample_buffer, pc>>
    /\ UNCHANGED <<variant, threads>>

-----------------------------------------------------------------------------
(* libretro_frontend_set_input, libretro_frontend_set_keyboard_key and
   retro_input_state_callback *)

\* the static g_frontend the input callbacks of a variant read
InputG(v) == IF v = "frontend" THEN g_frontend.fe ELSE g_frontend.input

\* table[cell] = pressed, on the set of cells that hold true
SetCell_sticky(table, cell, pressed) == table \cup {cell}

SetCell(table, cell, pressed) ==
    IF pressed = 1 THEN table \cup {cell} ELSE table \ {cell}

\* libretro_frontend_set_input: pressed is 1 for true, 0 for false
SetInput(port, button, pressed) ==
    /\ pc = "idle"
    /\ IF port >= InputPorts \/ button >= InputButtons
       THEN UNCHANGED frontend
       ELSE frontend' = [frontend EXCEPT
                            !.input_state = SetCell(@, <<port, button>>, pressed)]
    /\ call' = Call("set_input", 0, 0, <<port, button, pressed>>, <<>>, {})
    /\ UNCHANGED <<ring_mem, modules, g_frontend, single_sample_count,
                   single_sample_buffer, format_auto_detected, pc>>
    /\ UNCHANGED <<variant, threads>>

\* libretro_frontend_set_keyboard_key
SetKeyboardKey(keycode, pressed) ==
    /\ pc = "idle"
    /\ IF keycode >= RETROK_LAST
       THEN UNCHANGED frontend
       ELSE frontend' = [frontend EXCEPT
                            !.keyboard_state = SetCell(@, keycode, pressed)]
    /\ call' = Call("set_keyboard_key", 0, 0, <<keycode, pressed>>, <<>>, {})
    /\ UNCHANGED <<ring_mem, modules, g_frontend, single_sample_count,
                   single_sample_buffer, format_auto_detected, pc>>
    /\ UNCHANGED <<variant, threads>>

\* the value retro_input_state_callback returns on session fe
InputState(g, fe, port, device, id) ==
    IF g = NULL THEN 0
    ELSE IF device = RETRO_DEVICE_JOYPAD /\ port < InputPorts /\ id < InputButtons
    THEN IF <<port, id>> \in fe.input_state THEN 1 ELSE 0
    ELSE IF device = RETRO_DEVICE_KEYBOARD /\ port < InputPorts /\ id < RETROK_LAST
    THEN IF id \in fe.keyboard_state THEN 1 ELSE 0
    ELSE 0

\* the plugin queries the input state during retro_run
InputStateCb(port, device, id) ==
    /\ pc = "in_run"
    /\ BoundVariant \in Variants
    /\ call' = Call("input_state",  0,
                    InputState(InputG(BoundVariant), frontend, port, device, id),
                    <<port, device, id>>, <<>>, {})
    /\ UNCHANGED <<frontend, ring_mem, modules, g_frontend, single_sample_count,
                   single_sample_buffer, format_auto_detected, pc>>
    /\ UNCHANGED <<variant, threads>>

-----------------------------------------------------------------------------
(* Initial state: the session right after libretro_frontend_init *)

Init ==
    /\ frontend = libretro_frontend_init(TRUE)
    /\ variant \in Variants
    /\ ring_mem = EmptyMem
    /\ modules = <<>>
    /\ g_frontend = [env |-> NULL, video |-> NULL, audio |-> NULL,
                     input |-> NULL, fe |-> 1]
    /\ single_sample_count = [v \in Variants |-> 0]
    /\ single_sample_buffer = [v \in Variants |-> <<>>]
    /\ format_auto_detected = FALSE
    /\ pc = "idle"
    /\ threads = IdleThreads
    /\ call = NoCall

-----------------------------------------------------------------------------
(* Lifecycle behaviours: every library, every failure, both variants *)

LifeAvInfos == [width : {1}, height : {1}, sample_rate : {0}]

\* the libraries of the lifecycle behaviours: complete, or lacking one entry point
LifeLibraries ==
    {FullLib} \cup {AllSyms \ {s} : s \in {"retro_set_environment", "retro_init",
                                          "retro_run", "retro_set_video_refresh"}}

LoadAny ==
    \/ \E lib \in LifeLibraries : LoadCore(variant, lib, TRUE, TRUE)
    \/ \E calloc_ok \in BOOLEAN : LoadCore(variant, FullLib, calloc_ok, ~calloc_ok)

InitAny == InitCore(FALSE)

LoadRomAny ==
    \E rom \in {"none", "path"}, io_ok \in BOOLEAN,
       success \in BOOLEAN, av \in LifeAvInfos :
        LoadRom(variant, rom, io_ok, success, av, TRUE, TRUE)

FrontendInitAny == FrontendInit(TRUE)

\* the teardown of the variant: libretro_core_unload or libretro_frontend_deinit
UnloadCore == variant = "core" /\ Unload

DeinitFrontend == variant = "frontend" /\ Deinit

NextLife ==
    \/ LoadAny
    \/ InitAny
    \/ LoadRomAny
    \/ UnloadCore
    \/ DeinitFrontend
    \/ FrontendInitAny
    \/ RunFrameBegin
    \/ RunFrameEnd

SpecLife == Init /\ [][NextLife]_vars

-----------------------------------------------------------------------------
(* Audio behaviours: a complete plugin, all audio traffic *)

AudioAvInfos == [width : {1}, height : {1}, sample_rate : SampleRates]

\* the AV info the plugin pushes through the environment callback
EnvAvInfos == [width : {1}, height : {1}, sample_rate : {0, 4, DefaultSampleRate}]

\* the host loads and initializes one plugin
LoadFull == frontend.core = NULL /\ LoadCore(variant, FullLib, TRUE, TRUE)

InitFull == ~frontend.initialized /\ InitCore(FALSE)

LoadGameAudio ==
    \E av \in AudioAvInfos :
        frontend.initialized /\ LoadRom(variant, "none", TRUE, TRUE, av, TRUE, TRUE)

BatchAny ==
    \/ \E frames \in 0..MaxFrames : \E data \in Interleaved(frames) :
            AudioSampleBatchCb(FALSE, frames, data)
    \/ AudioSampleBatchCb(TRUE, 1, <<>>)

SampleAny == \E f \in PluginFrames : AudioSampleCb(f[1], f[2])

ReadAny ==
    \/ \E max_frames \in 0..MaxFrames : GetAudioSamples(FALSE, max_frames)
    \/ GetAudioSamples(TRUE, 1)

UpdateAvAudio ==
    \/ \E av \in AudioAvInfos : UpdateAvInfo(av, TRUE, TRUE)
    \/ UpdateAvInfo([width |-> 1, height |-> 1, sample_rate |-> 4], FALSE, TRUE)

EnvAvAudio ==
    \/ \E av \in EnvAvInfos : EnvSetAv(ENV_SET_SYSTEM_AV_INFO, FALSE, av)
    \/ EnvSetAv(ENV_SET_SYSTEM_AV_INFO, TRUE,
                [width |-> 1, height |-> 1, sample_rate |-> 0])

SetAudioFrontend == SetFrontend("audio", 1)

NextAudio ==
    \/ LoadFull
    \/ InitFull
    \/ LoadGameAudio
    \/ RunFrameBegin
    \/ RunFrameEnd
    \/ BatchAny
    \/ SampleAny
    \/ ReadAny
    \/ UpdateAvAudio
    \/ EnvAvAudio
    \/ SetAudioFrontend

SpecAudio == Init /\ [][NextAudio]_vars

-----------------------------------------------------------------------------
(* Video behaviours: a complete plugin, frames of every size and format *)

VideoAvInfos == [width : Dims, height : Dims, sample_rate : {0}]

LoadGameVideo ==
    \E av \in VideoAvInfos, fb_ok \in BOOLEAN :
        frontend.initialized /\ LoadRom(variant, "none", TRUE, TRUE, av, TRUE, fb_ok)

VideoAny ==
    \/ \E width \in 0..MaxDim, height \in 0..MaxDim, fb_ok \in BOOLEAN :
            \E pitch \in Pitches(width) :
                VideoRefreshCb(FALSE, width, height, pitch, fb_ok)
    \/ VideoRefreshCb(TRUE, 1, 1, 4, TRUE)

EnvPixelFormatAny == \E format \in PixelFormats : EnvSetPixelFormat(format)

EnvGeometryAny ==
    \/ \E av \in VideoAvInfos : EnvSetAv(ENV_SET_GEOMETRY, FALSE, av)
    \/ EnvSetAv(ENV_SET_GEOMETRY, TRUE, [width |-> 1, height |-> 1, sample_rate |-> 0])

SetVideoFrontend == SetFrontend("video", 1)

NextVideo ==
    \/ LoadFull
    \/ InitFull
    \/ LoadGameVideo
    \/ RunFrameBegin
    \/ RunFrameEnd
    \/ VideoAny
    \/ EnvPixelFormatAny
    \/ EnvGeometryAny
    \/ SetVideoFrontend

SpecVideo == Init /\ [][NextVideo]_vars

-----------------------------------------------------------------------------
(* No-game behaviours: a complete plugin that may advertise no-game support *)

EnvNoGameAny ==
    \/ \E support \in BOOLEAN : EnvSetSupportNoGame(FALSE, support)
    \/ EnvSetSupportNoGame(TRUE, TRUE)

\* the host loads a plugin that exports no retro_load_game
LoadWithoutLoadGame ==
    frontend.core = NULL /\ LoadCore(variant, AllSyms \ {"retro_load_game"}, TRUE, TRUE)

NextNoGame ==
    \/ LoadFull
    \/ LoadWithoutLoadGame
    \/ InitFull
    \/ LoadRomAny
    \/ RunFrameBegin
    \/ RunFrameEnd
    \/ EnvNoGameAny
    \/ UnloadCore
    \/ DeinitFrontend
    \/ FrontendInitAny

SpecNoGame == Init /\ [][NextNoGame]_vars

-----------------------------------------------------------------------------
(* Environment behaviours: a running plugin issues commands of every id *)

LoadGameEnv ==
    /\ frontend.initialized
    /\ LoadRom(variant, "none", TRUE, TRUE,
               [width |-> 1, height |-> 1, sample_rate |-> 0], TRUE, TRUE)

EnvCommandAny ==
    \E cmd \in 0..MaxCommandId, data_null \in BOOLEAN : EnvCommand(cmd, data_null)

EnvAvAny ==
    \E cmd \in {ENV_SET_SYSTEM_AV_INFO, ENV_SET_GEOMETRY}, data_null \in BOOLEAN :
        EnvSetAv(cmd, data_null, [width |-> 1, height |-> 1, sample_rate |-> 0])

NextEnv ==
    \/ LoadFull
    \/ InitFull
    \/ LoadGameEnv
    \/ RunFrameBegin
    \/ RunFrameEnd
    \/ EnvPixelFormatAny
    \/ EnvSetPixelFormatNull
    \/ EnvCommandAny
    \/ EnvAvAny
    \/ EnvNoGameAny

SpecEnv == Init /\ [][NextEnv]_vars

-----------------------------------------------------------------------------
(* Buffer behaviours: reallocation by update_av_info and by the video
   callback, geometry commands and teardown, with allocation failures and
   with AV info of zero width (calloc(1, 0) may return a block or NULL) *)

UpdateAvHeap ==
    \E av \in [width : {0, 1}, height : {1}, sample_rate : {0, 4}],
       calloc_ok \in BOOLEAN :
        UpdateAvInfo(av, calloc_ok, calloc_ok)

\* frames one or two pixels wide, with and without allocation failure
VideoHeap ==
    \E width \in 1..2, fb_ok \in BOOLEAN :
        VideoRefreshCb(FALSE, width, 1, width * 4, fb_ok)

EnvGeometryHeap ==
    \E width \in {0, 2} :
        EnvSetAv(ENV_SET_GEOMETRY, FALSE,
                 [width |-> width, height |-> 1, sample_rate |-> 0])

NextHeap ==
    \/ LoadFull
    \/ InitFull
    \/ LoadGameEnv
    \/ UpdateAvHeap
    \/ RunFrameBegin
    \/ RunFrameEnd
    \/ VideoHeap
    \/ EnvGeometryHeap
    \/ SetVideoFrontend
    \/ UnloadCore
    \/ DeinitFrontend
    \/ FrontendInitAny

SpecHeap == Init /\ [][NextHeap]_vars

-----------------------------------------------------------------------------
(* Stride detection across sessions: frames of one pixel with every stride,
   sessions destroyed and initialised again in the same process *)

VideoStrideAny ==
    \E pitch \in Pitches(1) : VideoRefreshCb(FALSE, 1, 1, pitch, TRUE)

NextDetect ==
    \/ LoadFull
    \/ InitFull
    \/ LoadGameEnv
    \/ RunFrameBegin
    \/ RunFrameEnd
    \/ VideoStrideAny
    \/ SetVideoFrontend
    \/ DeinitFrontend
    \/ FrontendInitAny

SpecDetect == Init /\ [][NextDetect]_vars

-----------------------------------------------------------------------------
(* Input behaviours: the host sets cells between frames, the plugin queries
   them during retro_run; indices at and around the table bounds *)

PortSamples == {0, InputPorts - 1, InputPorts}
ButtonSamples == {0, InputButtons - 1, InputButtons}
KeycodeSamples == {0, RETROK_LAST - 1, RETROK_LAST}
DeviceSamples == {RETRO_DEVICE_JOYPAD, 2, RETRO_DEVICE_KEYBOARD}

SetInputAny ==
    \E port \in PortSamples, button \in ButtonSamples, pressed \in {0, 1} :
        SetInput(port, button, pressed)

SetKeyboardKeyAny ==
    \E keycode \in KeycodeSamples, pressed \in {0, 1} :
        SetKeyboardKey(keycode, pressed)

InputStateAny ==
    \E port \in PortSamples, device \in DeviceSamples,
       id \in ButtonSamples \cup KeycodeSamples :
        InputStateCb(port, device, id)

SetInputFrontend == SetFrontend("input", 1)

NextInput ==
    \/ LoadFull
    \/ InitFull
    \/ LoadGameEnv
    \/ RunFrameBegin
    \/ RunFrameEnd
    \/ SetInputAny
    \/ SetKeyboardKeyAny
    \/ InputStateAny
    \/ SetInputFrontend

SpecInput == Init /\ [][NextInput]_vars

-----------------------------------------------------------------------------
(* Two-thread behaviours: the plugin writes batches during retro_run while an
   audio thread reads; the ring holds MaxRateQ frames *)

LoadGameConc ==
    /\ frontend.initialized
    /\ threads.r_pc = "idle"
    /\ LoadRom(variant, "none", TRUE, TRUE,
               [width |-> 1, height |-> 1, sample_rate |-> 4 * MaxRateQ],
               TRUE, TRUE)

WriteBeginAny == \E frames \in 1..MaxFrames : WriteBegin(frames)

ReadBeginAny == \E max_frames \in 1..MaxFrames : ReadBegin(max_frames)

\* retro_run returns after the callback it was in has returned
RunFrameEndConc == threads.w_pc = "idle" /\ RunFrameEnd

NextConc ==
    \/ LoadFull
    \/ InitFull
    \/ LoadGameConc
    \/ SetAudioFrontend
    \/ RunFrameBegin
    \/ RunFrameEndConc
    \/ WriteBeginAny
    \/ WriteCopyAdvance
    \/ WriteLoadAvailable
    \/ WriteStoreAvailable
    \/ ReadBeginAny
    \/ ReadCopyAdvance
    \/ ReadLoadAvailable
    \/ ReadStoreAvailable

SpecConc == Init /\ [][NextConc]_vars

-----------------------------------------------------------------------------
(* Pixel conversion: the per-pixel arithmetic of retro_video_refresh_callback,
   applied to every 16-bit source pixel *)

\* the 16-bit source pixels (uint16_t)
Pixels16 == 0..65535

\* dst = (0xFF << 24) | (b << 16) | (g << 8) | r, as the bytes R, G, B, A
Rgba(r, g, b) == <<r, g, b, 255>>

\* case RETRO_PIXEL_FORMAT_RGB565: 5-6-5 fields shifted up to 8 bits
Rgb565ToRgba(pixel) ==
    Rgba(((pixel \div 2048) % 32) * 8,
         ((pixel \div 32) % 64) * 4,
         (pixel % 32) * 8)

\* case RETRO_PIXEL_FORMAT_0RGB1555: 5-5-5 fields shifted up to 8 bits
Xrgb1555ToRgba(pixel) ==
    Rgba(((pixel \div 1024) % 32) * 8,
         ((pixel \div 32) % 32) * 8,
         (pixel % 32) * 8)

\* one source pixel of the given 16-bit format is converted
ConvertPixel(format, pixel) ==
    /\ call' = Call("convert", pixel, format, <<>>,
                    IF format = RETRO_PIXEL_FORMAT_RGB565
                    THEN Rgb565ToRgba(pixel) ELSE Xrgb1555ToRgba(pixel), {})
    /\ UNCHANGED <<frontend, ring_mem, modules, g_frontend, single_sample_count,
                   single_sample_buffer, format_auto_detected, pc>>
    /\ UNCHANGED <<variant, threads>>

\* one conversion per behaviour, of any pixel
ConvertRgb565 ==
    /\ call = NoCall
    /\ \E pixel \in Pixels16 : ConvertPixel(RETRO_PIXEL_FORMAT_RGB565, pixel)

ConvertXrgb1555 ==
    /\ call = NoCall
    /\ \E pixel \in Pixels16 : ConvertPixel(RETRO_PIXEL_FORMAT_0RGB1555, pixel)

NextPixel ==
    \/ ConvertRgb565
    \/ ConvertXrgb1555

SpecPixel == Init /\ [][NextPixel]_vars

Next == NextLife \/ NextAudio \/ NextVideo \/ NextNoGame \/ NextEnv \/ NextHeap \/ NextDetect \/ NextInput
          \/ NextConc \/ NextPixel

Spec == Init /\ [][Next]_vars

-----------------------------------------------------------------------------
(* Type invariant *)

TypeOK ==
    /\ pc \in {"idle", "in_run", "flush", "crashed"}
    /\ frontend.core \in 0..MaxLoads + 1
    /\ frontend.audio_ring_buffer \in {NULL, 1}
    /\ format_auto_detected \in BOOLEAN

-----------------------------------------------------------------------------
(* Claims *)

C3_Min(a, b) == IF a <= b THEN a ELSE b

RECURSIVE C4_Pow2(_)
C4_Pow2(k) == IF k = 0 THEN 1 ELSE 2 * C4_Pow2(k - 1)

\* the float f equals the int16 sample s divided by 32768
C4_IsSampleOver32768(f, s) == f.e <= SampleBits /\ f.m * C4_Pow2(SampleBits - f.e) = s

\* the callback of the running variant writes into the session's allocated ring
C3_RingWritable ==
    /\ AudioG(variant) # NULL
    /\ frontend.audio_ring_buffer # NULL
    /\ frontend.audio_ring_buffer_size > 0

\* C1: after any sequence of batch writes, single-sample writes, reads and
\* sample-rate reallocations, 0 <= available <= capacity, and read_pos and
\* write_pos are each strictly below the capacity.
C1_RingInvariant ==
    /\ frontend.audio_ring_available >= 0
    /\ frontend.audio_ring_available <= frontend.audio_ring_buffer_size
    /\ frontend.audio_ring_read_pos < frontend.audio_ring_buffer_size
    /\ frontend.audio_ring_write_pos < frontend.audio_ring_buffer_size

\* a write filled a ring whose read position had already advanced
C1_Witness ==
    /\ call.op = "batch"
    /\ call.ret > 0
    /\ frontend.audio_ring_available = frontend.audio_ring_buffer_size
    /\ frontend.audio_ring_read_pos > 0

\* C2: every destination pixel index a video-refresh call writes is below
\* framebuffer_size / 4, also when the frame is larger than the display
\* dimensions the framebuffer was sized to.
C2_VideoWritesInBounds ==
    call.op = "video" =>
        \A i \in call.idx : i < frontend.framebuffer_size \div 4

\* C3: a batch write of frames > 0 on an allocated ring returns
\* min(frames, capacity - available), adds that amount to available, advances
\* write_pos by it modulo the capacity, and when it is zero changes nothing.
C3_BatchWriteContract ==
    [][(pc' = "in_run" /\ call'.op = "batch" /\ call'.n > 0 /\ C3_RingWritable) =>
        LET k == C3_Min(call'.n,
                          frontend.audio_ring_buffer_size - frontend.audio_ring_available)
        IN /\ call'.ret = k
           /\ frontend'.audio_ring_available = frontend.audio_ring_available + k
           /\ frontend'.audio_ring_write_pos =
                (frontend.audio_ring_write_pos + k) % frontend.audio_ring_buffer_size
           /\ frontend'.audio_ring_read_pos = frontend.audio_ring_read_pos
           /\ k = 0 => (frontend' = frontend /\ ring_mem' = ring_mem)]_vars

\* a batch was accepted in part: some frames stored, the rest dropped
C3_Witness ==
    /\ call.op = "batch"
    /\ call.ret > 0
    /\ call.ret < call.n
    /\ frontend.audio_ring_available = frontend.audio_ring_buffer_size

\* the frames a read delivered are the samples of the preceding write, in order
C4_RoundTripHolds(written, delivered) ==
    /\ delivered.ret = written.n
    /\ Len(delivered.out) = written.n
    /\ \A i \in 1..written.n :
        /\ C4_IsSampleOver32768(delivered.out[i][1], written.data[2 * i - 1])
        /\ C4_IsSampleOver32768(delivered.out[i][2], written.data[2 * i])

\* C4 as stated: for all N <= capacity, write(samples, N) followed immediately
\* by read(N) returns the same N frames, each sample divided by 32768, in order.
C4_RoundTripAnyFill ==
    [][(call.op = "batch" /\ call'.op = "read" /\ call'.n = call.n
         /\ call.n <= frontend.audio_ring_buffer_size /\ C3_RingWritable) =>
        C4_RoundTripHolds(call, call')]_vars

\* C4 amended: the same, for a ring that was empty before the write.
C4_RoundTripEmpty ==
    [][(call.op = "batch" /\ call'.op = "read" /\ call'.n = call.n
         /\ call.n <= frontend.audio_ring_buffer_size /\ C3_RingWritable
         /\ frontend.audio_ring_available = call.ret) =>
        C4_RoundTripHolds(call, call')]_vars

\* a read right after a write returned two different frames and emptied the ring
C4_Witness ==
    /\ call.op = "read"
    /\ Len(call.data) = 2 * call.n
    /\ call.ret = 2
    /\ call.out[1] # call.out[2]
    /\ frontend.audio_ring_available = 0

\* C5 as stated: read(max_frames) always delivers exactly max_frames frames,
\* the oldest min(max_frames, available) buffered frames followed by zero frames.
C5_ReadPads ==
    [][call'.op = "read" =>
        LET k == C3_Min(call'.n, frontend.audio_ring_available)
        IN /\ Len(call'.out) = call'.n
           /\ \A i \in 1..call'.n :
                call'.out[i] =
                    IF i <= k
                    THEN Cell(ring_mem, (frontend.audio_ring_read_pos + i - 1)
                                            % frontend.audio_ring_buffer_size)
                    ELSE ZeroFrame]_vars

\* C5 amended: read(max_frames) delivers exactly min(max_frames, available)
\* frames, the oldest buffered ones in order, returns that count and consumes
\* them; nothing is padded.
C5_ReadReturnsAvailable ==
    [][call'.op = "read" =>
        LET k == C3_Min(call'.n, frontend.audio_ring_available)
        IN /\ call'.ret = k
           /\ Len(call'.out) = k
           /\ \A i \in 1..k :
                call'.out[i] = Cell(ring_mem, (frontend.audio_ring_read_pos + i - 1)
                                                % frontend.audio_ring_buffer_size)
           /\ frontend'.audio_ring_available = frontend.audio_ring_available - k
           /\ k > 0 => frontend'.audio_ring_read_pos =
                (frontend.audio_ring_read_pos + k) % frontend.audio_ring_buffer_size]_vars

\* a read asked for more than was buffered and got only the buffered frames
C5_Witness ==
    /\ call.op = "read"
    /\ call.ret > 0
    /\ call.ret < call.n
    /\ Len(call.out) = call.ret

\* C6: a set-system-av-info command with a new sample rate reallocates the
\* ring to new_rate / 4 and resets read_pos, write_pos and available to 0.
C6_EnvAvInfoReallocates ==
    [][(pc' = "in_run" /\ call'.op = "env32" /\ call'.ret = 1 /\ call'.n \div 4 > 0
         /\ call'.n # frontend.audio_sample_rate) =>
        /\ frontend'.audio_ring_buffer_size = call'.n \div 4
        /\ frontend'.audio_ring_read_pos = 0
        /\ frontend'.audio_ring_write_pos = 0
        /\ frontend'.audio_ring_available = 0]_vars

\* C7: loading a plugin that lacks retro_run or retro_init fails; afterwards
\* core_handle and core are null, the module is closed and its dispatch record
\* is not allocated.
C7_MissingMandatoryFails ==
    (call.op = "load" /\ call.n # 0
       /\ ~({"retro_init", "retro_run"} \subseteq modules[call.n].lib)) =>
        /\ call.ret = 0
        /\ frontend.core_handle = NULL
        /\ frontend.core = NULL
        /\ ~modules[call.n].open
        /\ modules[call.n].core_rec # "live"

\* a load got as far as the mandatory-symbol check and failed there
C7_Witness ==
    /\ call.op = "load"
    /\ call.n # 0
    /\ "retro_run" \notin modules[call.n].lib
    /\ modules[call.n].env_cb # "none"
    /\ modules[call.n].core_rec = "freed"

\* C8: a failed load leaves every session field, has_set_environment and the
\* environment handler's session context included, as it was before the call.
C8_FailedLoadKeepsState ==
    [][(call'.op = "load" /\ call'.ret = 0) =>
        (frontend' = frontend /\ g_frontend' = g_frontend)]_vars

\* C9: the deferred callbacks are bound to a plugin only if a load-game call
\* on that plugin has returned success.
C9_BoundOnlyAfterLoadGame ==
    \A i \in DOMAIN modules :
        modules[i].bound # "none" => modules[i].game_loads > 0

\* load_rom succeeded and the plugin now holds the deferred callbacks
C9_Witness ==
    /\ call.op = "load_rom"
    /\ call.ret = 1
    /\ frontend.core # NULL
    /\ modules[frontend.core].bound # "none"

\* C10: after every successful load_rom the deferred callbacks are registered
\* with the currently loaded plugin, also for a plugin loaded after an earlier
\* one was unloaded (stated for plugins that export the five setters, with no
\* earlier module left open).
C10_LoadRomBindsCurrentPlugin ==
    (call.op = "load_rom" /\ call.ret = 1
       /\ SetterSyms \subseteq modules[frontend.core].lib
       /\ \A j \in DOMAIN modules : j # frontend.core => ~modules[j].open) =>
        modules[frontend.core].bound # "none"

\* the positions of a step in the steps of a load
C11_StepsAt(steps, op, sym) == {k \in 1..Len(steps) : steps[k] = Step(op, sym)}

\* the positions at which the environment callback is handed to the plugin
C11_RegisteredAt(steps) == C11_StepsAt(steps, "call", "retro_set_environment")

\* C11 (as stated): on every module the load registered the environment
\* callback with, the registration comes before the resolution of every
\* entry point other than retro_set_environment and before every other call.
C11_EnvBeforeAnyOtherEntryPoint ==
    \A i \in 1..Len(modules) :
        \A r \in C11_RegisteredAt(modules[i].steps) :
            \A k \in 1..Len(modules[i].steps) :
                modules[i].steps[k].sym \notin {"retro_set_environment", "g_frontend"}
                    => r < k

\* C11 (amended): in the load that just returned, the registration is
\* directly preceded by the store of the session into the static the callback
\* reads, no entry point of the plugin is called before it, and every entry
\* point of the core record is resolved after it; only callback setters are
\* resolved earlier, and only by libretro_frontend_load_core.
C11_EnvBeforeCoreRecord ==
    \A i \in (IF call.op = "load" /\ call.n # 0 THEN {call.n} ELSE {}) :
        LET steps == modules[i].steps
        IN /\ modules[i].env_cb # "none" <=> C11_RegisteredAt(steps) # {}
           /\ \A r \in C11_RegisteredAt(steps) :
                /\ r > 1 /\ steps[r - 1] = Step("store", "g_frontend")
                /\ \A k \in 1..Len(steps) :
                     /\ steps[k].op = "call" => r <= k
                     /\ steps[k].sym \in CoreSyms => r < k
                     /\ (k < r /\ steps[k].op = "dlsym")
                            => \/ steps[k].sym = "retro_set_environment"
                               \/ /\ steps[k].sym \in SetterSyms
                                  /\ modules[i].env_cb = "frontend"

\* a loaded module whose load resolved all of its core record after registering
C11_Witness ==
    \E i \in 1..Len(modules) :
        /\ modules[i].env_cb # "none"
        /\ modules[i].core_rec = "live"
        /\ \A s \in CoreSyms : C11_StepsAt(modules[i].steps, "dlsym", s) # {}

\* C12: load-game is invoked (here: and answered true) only on a plugin whose
\* retro_init has been invoked, and init is invoked only on a plugin whose
\* load succeeded.
C12_LifecycleOrder ==
    /\ (call.op = "load_rom" /\ call.ret = 1) => modules[call.n].inited
    /\ (call.op = "init" /\ call.n # 0)
            => /\ modules[call.n].core_rec = "live"
               /\ MandatoryResolved(modules[call.n].lib)

\* the lifecycle state Running: the current plugin is loaded, its retro_init
\* was invoked and a load-game on it succeeded
C13_InRunningState ==
    /\ frontend.core # NULL
    /\ modules[frontend.core].inited
    /\ modules[frontend.core].game_loads > 0

\* C13: a run_frame entered while the session is not Running does not call
\* retro_run and changes nothing of the session or of the plugin.
C13_RunFrameNoOpUnlessRunning ==
    [][(pc = "idle" /\ call'.op = "run_frame" /\ ~C13_InRunningState)
          => (pc' = "idle" /\ frontend' = frontend /\ modules' = modules
              /\ ring_mem' = ring_mem)]_vars

\* C14: retro_deinit has been invoked only on plugin instances on which
\* retro_init was invoked before.
C14_DeinitOnlyAfterInit ==
    \A i \in 1..Len(modules) :
        modules[i].deinit_calls > 0 => modules[i].inited

\* C15: when a teardown frees the game image of the session (rom_path names
\* the plugin a successful load-game handed it to), it has called
\* retro_unload_game first, and on that plugin.
C15_ImageFreedAfterUnloadGame ==
    [][(pc = "idle" /\ call'.op \in {"unload", "deinit"} /\ frontend.rom_path # NULL)
          => (CallsUnloadGame(frontend, modules)
              /\ frontend.core = frontend.rom_path)]_vars

\* the plugin entry points invoked so far on module i
C16_Invocations(mods, i) ==
    <<mods[i].inited, mods[i].game_loads, mods[i].unload_game_calls,
      mods[i].deinit_calls, mods[i].bound>>

\* C16: a teardown (libretro_core_unload, libretro_frontend_deinit) of a
\* session with no plugin loaded invokes no plugin entry point; a teardown
\* directly after a teardown changes neither the session nor any module; and
\* no teardown frees a core record a second time or leaves behind a pointer
\* to what it freed.
C16_UnloadIdempotent ==
    [][(pc = "idle" /\ call'.op \in {"unload", "deinit"})
          => /\ frontend.core = NULL
                  => \A i \in 1..Len(modules) :
                        C16_Invocations(modules', i) = C16_Invocations(modules, i)
             /\ call.op = call'.op
                  => (frontend' = frontend /\ modules' = modules
                      /\ ring_mem' = ring_mem)
             /\ \A i \in 1..Len(modules) : modules'[i].core_rec # "freed_twice"
             /\ frontend'.core = NULL /\ frontend'.core_handle = NULL
             /\ frontend'.rom_data = NULL /\ frontend'.rom_path = NULL]_vars

\* a teardown on a session whose plugin an earlier teardown already unloaded
\* (after unload-game and deinit ran on it)
C16_Witness ==
    /\ call.op \in {"unload", "deinit"}
    /\ call.n = 0
    /\ Len(modules) = 1
    /\ modules[1].unload_game_calls > 0
    /\ modules[1].deinit_calls > 0
    /\ modules[1].core_rec = "freed"
    /\ ~modules[1].open

\* C17: right after a teardown the module of the unloaded plugin is closed,
\* its core record is freed, and the session is empty: every field is zero,
\* the framebuffer and the audio ring buffer included.
C17_UnloadResetsSession ==
    call.op \in {"unload", "deinit"}
        => /\ frontend = ZeroFrontend
           /\ call.n # 0 => (~modules[call.n].open
                              /\ modules[call.n].core_rec = "freed")

\* C18: when a run_frame that called retro_run returns to the host, the AV
\* info has been re-queried after the first frame: the session records it in
\* av_info_sent_after_first_frame (and a frame entered with the record set
\* leaves geometry and ring buffer alone).
C18_RequeryAfterFirstFrame ==
    [][(pc \in {"in_run", "flush"} /\ pc' = "idle")
          => /\ frontend'.av_info_sent_after_first_frame
             /\ frontend.av_info_sent_after_first_frame
                  => (frontend'.width = frontend.width
                      /\ frontend'.height = frontend.height
                      /\ frontend'.audio_ring_buffer_size
                            = frontend.audio_ring_buffer_size)]_vars

\* C19: a session without a game image is started (load_rom with a NULL path
\* succeeds) only on a plugin that advertised no-game support through
\* SET_SUPPORT_NO_GAME before.
C19_NoGameOnlyIfAdvertised ==
    (call.op = "load_rom" /\ call.ret = 1 /\ frontend.rom_path = NULL)
        => modules[call.n].no_game

\* the native modules opened and not yet closed
C20_OpenModules == {i \in 1..Len(modules) : modules[i].open}

\* C20: at most one native module is open at any time, and every open module
\* and every live core record is the one the session references.
C20_AtMostOneOpenModule ==
    /\ Cardinality(C20_OpenModules) <= 1
    /\ \A i \in 1..Len(modules) :
            /\ modules[i].open => frontend.core_handle = i
            /\ modules[i].core_rec = "live" => frontend.core = i


\* C21: in every reachable state in which the framebuffer is allocated, its
\* recorded size equals width * height * 4 for the session's current width
\* and height, also after an AV-info or geometry change.
C21_FramebufferSizeMatchesGeometry ==
    frontend.framebuffer # NULL =>
        frontend.framebuffer_size = FrameBytes(frontend.width, frontend.height)

\* C22: in every reachable state, also after an allocation failure, the
\* framebuffer pointer is null if and only if framebuffer_size is 0.
C22_PointerAndSizeTogether ==
    (frontend.framebuffer = NULL) <=> (frontend.framebuffer_size = 0)


\* C23: the 16-bit 5-6-5 conversion maps pixel 0xF800 to (R,G,B,A) =
\* (255,0,0,255), 0x07E0 to (0,255,0,255) and 0x001F to (0,0,255,255), and
\* for every 5-6-5 pixel alpha is 255.
C23_Rgb565PrimariesFullScale ==
    call.op = "convert" /\ call.ret = RETRO_PIXEL_FORMAT_RGB565 =>
        /\ call.n = 63488 => call.out = <<255, 0, 0, 255>>
        /\ call.n = 2016 => call.out = <<0, 255, 0, 255>>
        /\ call.n = 31 => call.out = <<0, 0, 255, 255>>
        /\ call.out[4] = 255


\* C24: for every command id the environment handler does not recognise, the
\* call returns false, leaves the session state unchanged and stores nothing
\* through the payload; nothing but the observation of the call changes, so
\* the commands that follow are handled as before.
C24_UnrecognisedCommandRejected ==
    [][pc = "in_run" /\ pc' = "in_run" /\ call'.op = "env"
          /\ call'.n \notin RecognisedCmds =>
          /\ call'.ret = 0
          /\ call'.out = <<>>
          /\ UNCHANGED <<frontend, ring_mem, modules, g_frontend,
                         single_sample_count, single_sample_buffer,
                         format_auto_detected>>]_vars

\* C24 witness: an unrecognised command was refused by a handler that has its
\* session, and the plugin is still running
C24_Witness ==
    /\ call.op = "env"
    /\ call.n \notin RecognisedCmds
    /\ call.ret = 0
    /\ pc = "in_run"
    /\ EnvG(modules[frontend.core].env_cb) # NULL


\* C25: the values set-pixel-format is specified to accept
C25_ValidPixelFormats ==
    {RETRO_PIXEL_FORMAT_0RGB1555, RETRO_PIXEL_FORMAT_XRGB8888,
     RETRO_PIXEL_FORMAT_RGB565, RETRO_PIXEL_FORMAT_RGB555}

\* C25: set-pixel-format with a value outside {0,1,2} and the alias 12 is
\* rejected: the handler returns false and the session (its pixel format and
\* raw-format fields included) is unchanged.
C25_InvalidPixelFormatRejected ==
    [][pc = "in_run" /\ pc' = "in_run" /\ call'.op = "env10"
          /\ call'.n \notin C25_ValidPixelFormats =>
          /\ call'.ret = 0
          /\ frontend'.pixel_format = frontend.pixel_format
          /\ frontend'.pixel_format_raw = frontend.pixel_format_raw]_vars

\* C29: after set-pixel-format with the value 12 the canonical pixel format
\* is format 2 (16-bit 5-6-5) and pixel_format_raw is 12; after the call with
\* a value v in {0,1,2} the canonical format and the raw field are both v.
C29_PixelFormatAndRaw ==
    call.op = "env10" =>
        /\ call.n = RETRO_PIXEL_FORMAT_RGB555 =>
              /\ frontend.pixel_format = RETRO_PIXEL_FORMAT_RGB565
              /\ frontend.pixel_format_raw = RETRO_PIXEL_FORMAT_RGB555
        /\ call.n \in {0, 1, 2} =>
              /\ frontend.pixel_format = call.n
              /\ frontend.pixel_format_raw = call.n

\* C29 witness: the handler accepted the alias 12 from a running plugin
C29_Witness ==
    /\ call.op = "env10"
    /\ call.n = RETRO_PIXEL_FORMAT_RGB555
    /\ call.ret = 1
    /\ frontend.pixel_format_raw = RETRO_PIXEL_FORMAT_RGB555
    /\ pc = "in_run"


\* C26: the stride detection is per session, never process-wide: whenever a
\* session whose declared format is the 32-bit format receives a frame whose
\* row stride is the 16-bit stride width * 2, the call records the corrected
\* 16-bit format in the session, whether or not an earlier session of the
\* process was corrected before.
C26_DetectionPerSession ==
    [][/\ pc = "in_run" /\ pc' = "in_run"
       /\ call'.op = "video" /\ call'.ret = 1 /\ call'.n > 0
       /\ call'.data[2] = call'.data[1] * 2
       /\ frontend.pixel_format = RETRO_PIXEL_FORMAT_XRGB8888
       => frontend'.pixel_format = RETRO_PIXEL_FORMAT_RGB565]_vars


\* C30: a frame of a stream declared as the 32-bit format is reinterpreted as
\* 16-bit only when its row stride is closer to width * 2 than to width * 4;
\* a frame whose stride is width * 4, or width * 4 plus padding, goes through
\* the 32-bit conversion and the session's pixel format stays 32-bit.
C30_ReinterpretOnlyNearHalfStride ==
    [][/\ pc = "in_run" /\ pc' = "in_run"
       /\ call'.op = "video" /\ call'.ret = 1 /\ call'.out[1] # "none"
       /\ frontend.pixel_format = RETRO_PIXEL_FORMAT_XRGB8888
       => /\ call'.data[2] >= call'.data[1] * 4 =>
                /\ frontend'.pixel_format = RETRO_PIXEL_FORMAT_XRGB8888
                /\ call'.out[1] = "xrgb8888"
          /\ frontend'.pixel_format # RETRO_PIXEL_FORMAT_XRGB8888 =>
                AbsDiff(call'.data[2], call'.data[1] * 2)
                    < AbsDiff(call'.data[2], call'.data[1] * 4)]_vars


\* C27: a step of set_input or set_keyboard_key writes the addressed cell, only
\* that cell, when the indices are in range, and no cell otherwise
C27_SetterWritesOneCell ==
    /\ pc = "idle" /\ pc' = "idle" /\ call'.op = "set_input" =>
          LET cell == <<call'.data[1], call'.data[2]>>
              in_range == call'.data[1] < InputPorts /\ call'.data[2] < InputButtons
          IN /\ frontend'.keyboard_state = frontend.keyboard_state
             /\ frontend'.input_state \ {cell} = frontend.input_state \ {cell}
             /\ IF in_range
                THEN (cell \in frontend'.input_state) <=> (call'.data[3] = 1)
                ELSE frontend'.input_state = frontend.input_state
    /\ pc = "idle" /\ pc' = "idle" /\ call'.op = "set_keyboard_key" =>
          LET key == call'.data[1]
          IN /\ frontend'.input_state = frontend.input_state
             /\ frontend'.keyboard_state \ {key} = frontend.keyboard_state \ {key}
             /\ IF key < RETROK_LAST
                THEN (key \in frontend'.keyboard_state) <=> (call'.data[2] = 1)
                ELSE frontend'.keyboard_state = frontend.keyboard_state

\* C27: the cell a query (port, device, id) addresses holds true
C27_CellHolds(fe, port, device, id) ==
    \/ device = RETRO_DEVICE_JOYPAD /\ <<port, id>> \in fe.input_state
    \/ /\ device = RETRO_DEVICE_KEYBOARD
       /\ port < InputPorts
       /\ id \in fe.keyboard_state

\* C27: a query step answers 1 when the addressed cell holds true, else 0
C27_QueryReadsCell ==
    call'.ret = IF C27_CellHolds(frontend, call'.data[1], call'.data[2], call'.data[3])
                THEN 1 ELSE 0

\* C27: only in-range cells are ever true
C27_CellsInRange ==
    /\ \A c \in frontend.input_state : c[1] < InputPorts /\ c[2] < InputButtons
    /\ \A k \in frontend.keyboard_state : k < RETROK_LAST

C28_AvailableNeverTorn ==
    BoundVariant \in Variants =>
        /\ frontend.audio_ring_available >= 0
        /\ frontend.audio_ring_available <= frontend.audio_ring_buffer_size
        /\ threads.w_pc = "idle" /\ threads.r_pc = "idle" =>
              frontend.audio_ring_available = threads.accepted - threads.consumed


\* C31: geometry reconciliation applies to every supported pixel format: after
\* a video-refresh call that ran a conversion loop on a frame of fw x fh
\* pixels, every destination pixel (x, y) of the dw x dh display holds the
\* conversion of source pixel (x * fw / dw, y * fh / dh), which is (x, y)
\* when the dimensions are equal.
C31_ResampledForEveryFormat ==
    (pc = "in_run" /\ call.op = "video" /\ call.ret = 1 /\ call.out[1] # "none") =>
        LET fw == call.data[1]
            fh == call.n \div fw
            dw == frontend.width
            dh == frontend.height
            src == call.out[2]
        IN \A x \in 0..(dw - 1), y \in 0..(dh - 1) :
              /\ (y * dw + x) \in DOMAIN src
              /\ src[y * dw + x] = <<(x * fw) \div dw, (y * fh) \div dh>>


\* C32: a sample the plugin delivers through the single-sample callback
\* during run_frame is only accumulated: the callback does not write to the
\* ring buffer, the write happens in the flush at the end of run_frame, and
\* when run_frame returns the accumulator is empty.
C32_SingleSamplesFlushedPerFrame ==
    [][/\ (/\ pc = "in_run" /\ pc' = "in_run"
           /\ call'.op = "sample"
           /\ AudioG(BoundVariant) # NULL)
          => /\ frontend'.audio_ring_available = frontend.audio_ring_available
             /\ frontend'.audio_ring_write_pos = frontend.audio_ring_write_pos
             /\ ring_mem' = ring_mem
       /\ (pc # "idle" /\ pc' = "idle")
          => \A v \in Variants : single_sample_count'[v] = 0]_vars


\* C33: whenever update_av_info completes for a plugin reporting sample rate
\* R, whatever environment commands came before, the session sample rate is R
\* (44100 when R is 0) and the ring capacity is that rate / 4 (11025 when the
\* quotient is 0); read_pos, write_pos and available are 0 if the rate
\* changed, and the ring contents and indices are untouched if it did not.
C33_CapacityFollowsRate ==
    [][(/\ pc = "idle" /\ pc' = "idle"
        /\ call'.op = "update_av_info"
        /\ frontend.core # NULL)
       => LET rate == IF call'.n = 0 THEN 44100 ELSE call'.n
          IN /\ frontend'.audio_sample_rate = rate
             /\ frontend'.audio_ring_buffer_size =
                   (IF rate \div 4 = 0 THEN 11025 ELSE rate \div 4)
             /\ IF rate # frontend.audio_sample_rate
                THEN /\ frontend'.audio_ring_read_pos = 0
                     /\ frontend'.audio_ring_write_pos = 0
                     /\ frontend'.audio_ring_available = 0
                ELSE /\ ring_mem' = ring_mem
                     /\ frontend'.audio_ring_read_pos = frontend.audio_ring_read_pos
                     /\ frontend'.audio_ring_write_pos = frontend.audio_ring_write_pos
                     /\ frontend'.audio_ring_available =
                           frontend.audio_ring_available]_vars


\* the frames buffered in the ring of session fe, oldest first
C34_Queue(fe, mem) ==
    [i \in 1..fe.audio_ring_available |->
        Cell(mem, (fe.audio_ring_read_pos + i - 1) % fe.audio_ring_buffer_size)]

\* the first k frames of an interleaved int16 buffer, as stored
C34_Frames(data, k) ==
    [i \in 1..k |-> <<ToFloat(data[2 * i - 1]), ToFloat(data[2 * i])>>]

\* C34: the ring buffer is FIFO and lossless for accepted frames: a write
\* appends exactly the frames it accepted behind the buffered ones, and a read
\* returns the oldest buffered frames and leaves the rest in order, also
\* across index wrap-around; so between reallocations the frames returned by
\* the reads, concatenated, are a prefix of the frames accepted by the writes.
C34_FifoLossless ==
    [][/\ (/\ pc = "in_run" /\ pc' = "in_run"
           /\ call'.op \in {"batch", "sample"})
          => C34_Queue(frontend', ring_mem') =
               C34_Queue(frontend, ring_mem) \o C34_Frames(call'.data, call'.ret)
       /\ (/\ pc = "idle" /\ pc' = "idle"
           /\ call'.op = "read")
          => /\ Len(call'.out) = call'.ret
             /\ C34_Queue(frontend, ring_mem) =
                  call'.out \o C34_Queue(frontend', ring_mem')]_vars

\* a read of two different frames that crossed the end of the ring
C34_Witness ==
    /\ pc = "idle"
    /\ call.op = "read"
    /\ call.ret = 2
    /\ call.out[1] # call.out[2]
    /\ frontend.audio_ring_read_pos > 0
    /\ frontend.audio_ring_read_pos < call.ret


\* C35: every load-game call that returned success, the no-game one included,
\* is followed by exactly one call of the plugin's unload-game entry point
\* before the native module is closed: the step that closes a module on
\* which a load-game succeeded leaves it with one unload-game call.
C35_UnloadGameBeforeClose ==
    [][\A m \in DOMAIN modules :
          (/\ modules[m].open
           /\ m \in DOMAIN modules' /\ ~modules'[m].open
           /\ modules[m].game_loads > 0)
          => modules'[m].unload_game_calls = 1]_vars


\* C36: no lifecycle operation invokes a dispatch-table member that failed to
\* resolve: the session never reaches the state a call through a null entry
\* point leaves it in.
C36_NoCallThroughUnresolved ==
    pc # "crashed"


\* C37: whenever the deferred callbacks are bound to the plugin through the
\* libretro_core_* lifecycle, the video, audio and input callback modules
\* each hold a non-null session reference, the session that bound them.
C37_CoreBindingSetsSessionReferences ==
    BoundVariant = "core" =>
        /\ g_frontend.video = 1
        /\ g_frontend.audio = 1
        /\ g_frontend.input = 1


\* the operations a plugin makes by issuing a payload command with a NULL
\* payload
C38_NullPayloadOps ==
    {"env_null", "env10_null", "env18_null", "env32_null", "env37_null"}

\* C38: for every recognised environment command that reads or writes its
\* payload (set-pixel-format, the directory queries, set-support-no-game,
\* get-audio-video-enable, set-system-av-info, set-geometry,
\* get-log-interface), a null payload makes the handler return false without
\* dereferencing the payload and without changing the session state.
C38_NullPayloadRejected ==
    [][(pc = "in_run" /\ pc' # "idle" /\ call'.op \in C38_NullPayloadOps) =>
          /\ call'.ret = 0
          /\ call'.out = <<>>
          /\ pc' = "in_run"
          /\ UNCHANGED <<frontend, ring_mem, modules, g_frontend,
                         single_sample_count, single_sample_buffer,
                         format_auto_detected>>]_vars


\* the free calls of the last operation are on live blocks, at most one per
\* buffer, and the session's buffer pointers are null or point to a live
\* block (1), never to a freed one
C39_FreesAreSafe ==
    /\ \A i \in 1..Len(call.freed) : call.freed[i].ptr = 1
    /\ \A i, j \in 1..Len(call.freed) :
          call.freed[i].buf = call.freed[j].buf => i = j
    /\ frontend.framebuffer \in {NULL, 1}
    /\ frontend.audio_ring_buffer \in {NULL, 1}

C40_WritePosIsReadPosPlusAvailable ==
    (frontend.audio_ring_buffer # NULL /\ frontend.audio_ring_buffer_size > 0)
        => frontend.audio_ring_write_pos =
              (frontend.audio_ring_read_pos + frontend.audio_ring_available)
                  % frontend.audio_ring_buffer_size

\* a read has advanced read_pos and a later write has wrapped write_pos
\* behind it, with frames still queued
C40_Witness ==
    /\ call.op = "batch"
    /\ call.ret > 0
    /\ frontend.audio_ring_buffer # NULL
    /\ frontend.audio_ring_read_pos > 0
    /\ frontend.audio_ring_available > 0
    /\ frontend.audio_ring_write_pos < frontend.audio_ring_read_pos

====
